---- MODULE Spec2Model ----
(***************************************************************************)
(* SimpleEvents / TinyEvents: a cooperative scheduler polled from loop().  *)
(* The model follows src/src/simpleEvents.h (variant "simple") and         *)
(* src/src/tinyEvents.h (variant "tiny").  run() is modelled step by step: *)
(* one step per visited entry, and one state per callback or predicate in  *)
(* flight, because callbacks may call the control operations of the engine *)
(* that is running them.                                                   *)
(***************************************************************************)
EXTENDS Integers, Sequences, FiniteSets, TLC

\* ------------------------------------------------------------- bounds
T_MAX == 2              \* template parameter T_MAX of the modelled instance
R_MAX == 2              \* template parameter R_MAX of the modelled instance
MaxTime == 5            \* the clock is observed up to this value
MaxStep == 2            \* largest clock advance between two user steps
MaxInterval == 2        \* largest interval passed to addSchedule
MaxWait == 2            \* largest timeout / delay passed to addReaction
MaxStart == 1           \* largest delay_start passed to an add
MaxStamp == 1           \* largest small timestamp passed to a control operation
BootTime == 1           \* time between power-up and begin()
ULONG_MOD == 1073741824 \* unsigned long wraps here: its 32 bits scaled to 30, for
                        \* the range of the checker's integers

\* ---------------------------------------------------- program constants
TWAIT_MOD == 65536      \* TWait_t = uint16_t
BYTE_BITS == 8          \* bits of one rct_areTrigged byte (tiny)
FAR_FUTURE == ULONG_MOD - 1   \* the largest unsigned long

SchdIds == 0 .. (T_MAX - 1)
RctIds == 0 .. (R_MAX - 1)
NBytes == (7 + R_MAX) \div BYTE_BITS
Variants == {"simple", "tiny"}

VARIABLES
    variant,            \* which class is instantiated
    clock,              \* millis()
    last_schd, last_rct,
    schd_tIntrvls, schd_areActive, schd_nextCalls,
    rct_tTimeouts, rct_tDelays, rct_areActive, rct_areTrigged,
    rct_nextTrigs, rct_nextCalls,
    pc,                 \* position of the program: user code or a step of run()
    i,                  \* loop index of run()
    now,                \* local `now` of begin() / run()
    ret,                \* value returned by the last add
    begun,              \* number of begin() calls so far
    log,                \* callbacks and predicates invoked by the current run()
    pre,                \* entry state read by run() when it last visited an entry
    epoch,              \* clock value sampled by the first begin()
    schd_start, rct_start,    \* delay_start each entry was added with
    schd_plain, rct_plain,    \* added before the only begin(), no control operation since
    schd_count,         \* invocations of each schedule's action while plain
    rct_accept,         \* tick time of each reaction's latest accepted trigger, -1: none
    rct_promised,       \* t + delay for the oldest accepted trigger at t whose action
                        \* has neither run nor been cancelled or stopped, -1: none
    self_set,           \* what the action in flight last wrote to its own entry
    schd_grid,          \* added before the only begin() and since then only paused,
                        \* or resumed with the default arguments while paused
    last_op             \* the control operation user code has just called, if any

engine == <<last_schd, last_rct, schd_tIntrvls, schd_areActive, schd_nextCalls,
            rct_tTimeouts, rct_tDelays, rct_areActive, rct_areTrigged,
            rct_nextTrigs, rct_nextCalls>>
ghost == <<epoch, schd_start, rct_start, schd_plain, rct_plain, schd_count,
           rct_accept, rct_promised, self_set, schd_grid>>
vars == <<variant, clock, engine, pc, i, now, ret, begun, log, pre, ghost, last_op>>

\* ------------------------------------------------------- pure helpers
Add32(a, b) == (a + b) % ULONG_MOD

Pow2(k) == IF k = 0 THEN 1 ELSE IF k = 1 THEN 2 ELSE IF k = 2 THEN 4
           ELSE IF k = 3 THEN 8 ELSE IF k = 4 THEN 16 ELSE IF k = 5 THEN 32
           ELSE IF k = 6 THEN 64 ELSE 128

\* ( flags[id/8] & (0x01 << (id%8)) ) != 0
BitTest(flags, id) ==
    (flags[id \div BYTE_BITS] \div Pow2(id % BYTE_BITS)) % 2 = 1

\* flags[id/8] |= (0x01 << (id%8))
BitSet(flags, id) ==
    IF BitTest(flags, id) THEN flags
    ELSE [flags EXCEPT ![id \div BYTE_BITS] = @ + Pow2(id % BYTE_BITS)]

\* mutant: the whole byte is cleared
BitClearByte(flags, id) == [flags EXCEPT ![id \div BYTE_BITS] = 0]

\* flags[id/8] &= ~(0x01 << (id%8))
BitClear(flags, id) ==
    IF BitTest(flags, id)
    THEN [flags EXCEPT ![id \div BYTE_BITS] = @ - Pow2(id % BYTE_BITS)]
    ELSE flags

\* the pending flag of a reaction as variant v keeps it: one bool per reaction
\* (simple) or one bit of a byte array (tiny)
IsTriggedIn(v, flags, id) ==
    IF v = "simple" THEN flags[id] ELSE BitTest(flags, id)

SetTriggedIn(v, flags, id) ==
    IF v = "simple" THEN [flags EXCEPT ![id] = TRUE] ELSE BitSet(flags, id)

ClearTriggedIn(v, flags, id) ==
    IF v = "simple" THEN [flags EXCEPT ![id] = FALSE] ELSE BitClear(flags, id)

IsTrigged(flags, id) == IsTriggedIn(variant, flags, id)

SetTrigged(flags, id) == SetTriggedIn(variant, flags, id)

\* mutant: the flag is left as it is
ClearTriggedKept(flags, id) == flags

ClearTrigged(flags, id) == ClearTriggedIn(variant, flags, id)

Pending(id) == IsTrigged(rct_areTrigged, id)

\* mutant: the active flag is not tested
SchdDueUnpaused(id) == schd_nextCalls[id] < now

\* mutant: the schedule is due when the wrapped difference now - next_fire is
\* in the lower half of the range (the wrap-safe idiom)
SchdDueElapsed(id) ==
    /\ variant = "simple" => schd_areActive[id]
    /\ (now - schd_nextCalls[id]) % ULONG_MOD \in 1 .. (ULONG_MOD \div 2)

\* the condition of the first loop of run()
SchdDueIn(v, active, id) ==
    IF v = "simple"
    THEN active[id] /\ schd_nextCalls[id] < now
    ELSE schd_nextCalls[id] < now

SchdDue(id) == SchdDueIn(variant, schd_areActive, id)

\* mutant: resynchronise to the poll time, schd_nextCalls[i] = now + schd_tIntrvls[i]
SchdAdvanceFromNow(id) ==
    [schd_nextCalls EXCEPT ![id] = Add32(now, schd_tIntrvls[id])]

\* mutant: firing leaves next_fire where it was
SchdAdvanceStuck(id) == schd_nextCalls

\* schd_nextCalls[i] += schd_tIntrvls[i]
SchdAdvance(id) ==
    [schd_nextCalls EXCEPT ![id] = Add32(@, schd_tIntrvls[id])]

\* mutant: a pending reaction is settled as soon as now reaches its time
ExecDueInclusive(id) == Pending(id) /\ rct_nextCalls[id] <= now

\* mutant: a pending reaction is settled only while its trigger is active
ExecDueActive(id) == Pending(id) /\ rct_areActive[id] /\ rct_nextCalls[id] < now

\* mutant: the settle scan does not test the pending flag
ExecDueUnqueued(id) == rct_nextCalls[id] < now

\* the condition of the second loop of run()
ExecDue(id) == Pending(id) /\ rct_nextCalls[id] < now

\* mutant: the trigger of a pending reaction is not checked
TrigDueIdle(id) ==
    /\ ~Pending(id)
    /\ IF variant = "simple"
       THEN rct_areActive[id] /\ rct_nextTrigs[id] < now
       ELSE rct_nextTrigs[id] < now

\* the part of the third loop's condition evaluated before the predicate
TrigDueIn(v, active, id) ==
    IF v = "simple"
    THEN active[id] /\ rct_nextTrigs[id] < now
    ELSE rct_nextTrigs[id] < now

TrigDue(id) == TrigDueIn(variant, rct_areActive, id)

\* mutant: the debounce window is as long as the delay
TrigRearmDelayed(id) ==
    [rct_nextTrigs EXCEPT ![id] = Add32(now, rct_tDelays[id])]

\* rct_nextTrigs[i] = now + rct_tTimeouts[i]
TrigRearm(id) ==
    [rct_nextTrigs EXCEPT ![id] = Add32(now, rct_tTimeouts[id])]

\* mutant: the execution time is counted from a fresh reading of the clock
TrigScheduleClock(id) ==
    [rct_nextCalls EXCEPT ![id] = Add32(clock, rct_tDelays[id])]

\* rct_nextCalls[i] = now + rct_tDelays[i]
TrigSchedule(id) ==
    [rct_nextCalls EXCEPT ![id] = Add32(now, rct_tDelays[id])]

\* mutant: the timestamp is always taken as absolute
StampAbsolute(timestamp, abs) == timestamp

\* if (!abs) timestamp += millis();
Stamp(timestamp, abs) == IF abs THEN timestamp ELSE Add32(timestamp, clock)

UserCode == {"idle", "schd_cb", "exec_cb", "trig_cb"}
\* every place a control operation can be called from: loop(), an action or a
\* predicate
Callers == UserCode \cup {"trig_pred"}
InCallback == pc \in {"schd_cb", "exec_cb", "trig_cb"}

Event(kind, id) == [kind |-> kind, id |-> id]
NoSet == [kind |-> "none", id |-> 0, active |-> FALSE, next |-> 0]

\* a call of a control operation with its arguments as passed (flags as 0 / 1);
\* `again`: the call before it, with nothing in between, was the same call
NoOp == [op |-> "none", id |-> 0, rd |-> 0, ts |-> 0, abs |-> 0, again |-> FALSE]
Called(op, id, rd, ts, abs) ==
    last_op' = [op |-> op, id |-> id, rd |-> rd, ts |-> ts, abs |-> abs,
                again |-> /\ last_op.op = op /\ last_op.id = id /\ last_op.rd = rd
                          /\ last_op.ts = ts /\ last_op.abs = abs]

\* mutant: the triggers are checked before the pending reactions are settled
NextScanSwapped(scan) ==
    CASE scan = "schd" -> "trig"
      [] scan = "trig" -> "exec"
      [] OTHER -> "end"

\* run() executes its three loops one after the other
NextScan(scan) ==
    CASE scan = "schd" -> "exec"
      [] scan = "exec" -> "trig"
      [] OTHER -> "end"

\* ---------------------------------------------------------------- Init
Init ==
    /\ variant \in Variants
    /\ clock = 0
    /\ last_schd = -1
    /\ last_rct = -1
    /\ schd_tIntrvls = [s \in SchdIds |-> 0]
    /\ schd_areActive = [s \in SchdIds |-> FALSE]
    /\ schd_nextCalls = [s \in SchdIds |-> 0]
    /\ rct_tTimeouts = [r \in RctIds |-> 0]
    /\ rct_tDelays = [r \in RctIds |-> 0]
    /\ rct_areActive = [r \in RctIds |-> FALSE]
    /\ rct_areTrigged = IF variant = "simple" THEN [r \in RctIds |-> FALSE]
                        ELSE [b \in 0 .. (NBytes - 1) |-> 0]
    /\ rct_nextTrigs = [r \in RctIds |-> 0]
    /\ rct_nextCalls = [r \in RctIds |-> 0]
    /\ pc = "idle"
    /\ i = 0
    /\ now = 0
    /\ ret = [op |-> "none", val |-> 0]
    /\ begun = 0
    /\ log = <<>>
    /\ pre = 0
    /\ epoch = 0
    /\ schd_start = [s \in SchdIds |-> 0]
    /\ rct_start = [r \in RctIds |-> 0]
    /\ schd_plain = [s \in SchdIds |-> FALSE]
    /\ rct_plain = [r \in RctIds |-> FALSE]
    /\ schd_count = [s \in SchdIds |-> 0]
    /\ rct_accept = [r \in RctIds |-> -1]
    /\ rct_promised = [r \in RctIds |-> -1]
    /\ self_set = NoSet
    /\ schd_grid = [s \in SchdIds |-> FALSE]
    /\ last_op = NoOp


\* ------------------------------------------------------- input domains
Intervals == 1 .. MaxInterval
Waits == 0 .. MaxWait
Starts == 0 .. MaxStart
Stamps == (0 .. MaxStamp) \cup {FAR_FUTURE}
SchdArgs == -1 .. T_MAX
RctArgs == -1 .. R_MAX
Flags8 == {0, 1}

NoRet == [op |-> "none", val |-> 0]
Ret(op, val) == [op |-> op, val |-> val]

\* the user-level operations leave run()'s bookkeeping alone
UserFrame == UNCHANGED <<variant, clock, pc, i, now, begun, log, pre, epoch>>
AddFrame == UNCHANGED <<rct_promised, self_set>> /\ last_op' = NoOp

\* ------------------------------------------------------------- adding
\* mutant: the capacity test of addSchedule is off by one
SchdFullLate == last_schd > T_MAX - 1

\* if (last_schd > T_MAX - 2) return -1;
SchdFull == last_schd > T_MAX - 2

\* if (last_rct > R_MAX - 2) return -1;
RctFull == last_rct > R_MAX - 2

\* mutant: every add after the first writes the entry of the add before it
SlotReused(last) == IF last < 0 THEN 0 ELSE last

\* the index of schd_calls[++last_schd] / rct_trigs[++last_rct]
Slot(last) == last + 1

AddSchedule(interval, delay_start) ==
    /\ pc = "idle"
    /\ UserFrame
    /\ AddFrame
    /\ UNCHANGED <<last_rct, rct_tTimeouts, rct_tDelays, rct_areActive, rct_areTrigged,
                   rct_nextTrigs, rct_nextCalls, rct_start, rct_plain, rct_accept>>
    /\ IF SchdFull
       THEN /\ ret' = Ret("addSchedule", -1)
            /\ UNCHANGED <<last_schd, schd_tIntrvls, schd_areActive, schd_nextCalls,
                           schd_start, schd_plain, schd_count, schd_grid>>
       ELSE /\ last_schd' = Slot(last_schd)
            /\ schd_tIntrvls' = [schd_tIntrvls EXCEPT ![last_schd'] = interval]
            /\ schd_nextCalls' = [schd_nextCalls EXCEPT ![last_schd'] = delay_start]
            /\ schd_areActive' = IF variant = "simple"
                                 THEN [schd_areActive EXCEPT ![last_schd'] = TRUE]
                                 ELSE schd_areActive
            /\ ret' = Ret("addSchedule", last_schd')
            /\ schd_start' = [schd_start EXCEPT ![last_schd'] = delay_start]
            /\ schd_plain' = [schd_plain EXCEPT ![last_schd'] = (begun = 0)]
            /\ schd_count' = [schd_count EXCEPT ![last_schd'] = 0]
            /\ schd_grid' = [schd_grid EXCEPT ![last_schd'] = (begun = 0)]

\* TWait_t narrows the timeout and the delay of the tiny variant
NarrowIn(v, w) == IF v = "simple" THEN w % ULONG_MOD ELSE w % TWAIT_MOD

Narrow(w) == NarrowIn(variant, w)

AddReaction(timeout, delay, delay_start) ==
    /\ pc = "idle"
    /\ UserFrame
    /\ AddFrame
    /\ UNCHANGED <<last_schd, schd_tIntrvls, schd_areActive, schd_nextCalls,
                   schd_start, schd_plain, schd_count, schd_grid, rct_areTrigged,
                   rct_nextCalls, rct_accept>>
    /\ IF RctFull
       THEN /\ ret' = Ret("addReaction", -1)
            /\ UNCHANGED <<last_rct, rct_tTimeouts, rct_tDelays, rct_areActive,
                           rct_nextTrigs, rct_start, rct_plain>>
       ELSE /\ last_rct' = Slot(last_rct)
            /\ rct_tTimeouts' = [rct_tTimeouts EXCEPT ![last_rct'] = Narrow(timeout)]
            /\ rct_tDelays' = [rct_tDelays EXCEPT ![last_rct'] = Narrow(delay)]
            /\ rct_nextTrigs' = [rct_nextTrigs EXCEPT ![last_rct'] = delay_start]
            /\ rct_areActive' = IF variant = "simple"
                                THEN [rct_areActive EXCEPT ![last_rct'] = TRUE]
                                ELSE rct_areActive
            /\ ret' = Ret("addReaction", last_rct')
            /\ rct_start' = [rct_start EXCEPT ![last_rct'] = delay_start]
            /\ rct_plain' = [rct_plain EXCEPT ![last_rct'] = (begun = 0)]

\* -------------------------------------------------------------- begin
\* mutant: begin() overwrites the initial delays with the epoch
BeginAssign(stamps, last, t) ==
    [k \in DOMAIN stamps |-> IF k <= last THEN t ELSE stamps[k]]

\* for (i = 0; i <= last; i++) stamps[i] += now;
BeginShift(stamps, last, t) ==
    [k \in DOMAIN stamps |-> IF k <= last THEN Add32(stamps[k], t) ELSE stamps[k]]

\* `elapsed`: the time setup() took before the call; unsigned long now = millis();
Begin(elapsed) ==
    /\ pc = "idle"
    /\ clock + elapsed <= MaxTime
    /\ clock' = clock + elapsed
    /\ now' = clock'
    /\ schd_nextCalls' = BeginShift(schd_nextCalls, last_schd, now')
    /\ rct_nextTrigs' = BeginShift(rct_nextTrigs, last_rct, now')
    /\ begun' = begun + 1
    /\ ret' = NoRet
    /\ epoch' = IF begun = 0 THEN now' ELSE epoch
    /\ schd_plain' = IF begun = 0 THEN schd_plain ELSE [s \in SchdIds |-> FALSE]
    /\ rct_plain' = IF begun = 0 THEN rct_plain ELSE [r \in RctIds |-> FALSE]
    /\ schd_count' = IF begun = 0 THEN schd_count ELSE [s \in SchdIds |-> 0]
    /\ schd_grid' = IF begun = 0 THEN schd_grid ELSE [s \in SchdIds |-> FALSE]
    /\ last_op' = NoOp
    /\ UNCHANGED <<variant, pc, i, log, pre, last_schd, last_rct, schd_tIntrvls,
                   schd_areActive, rct_tTimeouts, rct_tDelays, rct_areActive,
                   rct_areTrigged, rct_nextCalls, schd_start, rct_start, rct_accept,
                   rct_promised, self_set>>


\* ------------------------------------------------- control operations
\* Called from loop() between two run() calls, or from the body of an action
\* that run() is executing.

\* a bool argument as the integer it converts to
Flag8(b) == IF b THEN 1 ELSE 0

\* int8_t parameters of the tiny variant
ToInt8(v) == LET m == v % 256 IN IF m > 127 THEN m - 256 ELSE m

\* mutant: the id is tested against the capacity of the table
SchdValidCapacity(id) == ~((id < 0) \/ (id > T_MAX - 1))

SchdValid(id) == ~((id < 0) \/ (id > last_schd))
RctValid(id) == ~((id < 0) \/ (id > last_rct))

\* the record of an action's writes to the entry it belongs to
SelfSet(kind, id, active, next) ==
    IF (kind = "schd" /\ pc = "schd_cb" /\ id = i) \/ (kind = "rct" /\ pc = "trig_cb" /\ id = i)
    THEN [kind |-> kind, id |-> id, active |-> active, next |-> next]
    ELSE IF self_set.kind = kind /\ self_set.id = id THEN NoSet ELSE self_set

SchdTouched(id) ==
    /\ schd_plain' = IF SchdValid(id) THEN [schd_plain EXCEPT ![id] = FALSE] ELSE schd_plain
    /\ schd_count' = IF SchdValid(id) THEN [schd_count EXCEPT ![id] = 0] ELSE schd_count
    /\ self_set' = IF SchdValid(id)
                   THEN SelfSet("schd", id, schd_areActive'[id], schd_nextCalls'[id])
                   ELSE self_set

RctTouched(id) ==
    /\ rct_plain' = IF RctValid(id) THEN [rct_plain EXCEPT ![id] = FALSE] ELSE rct_plain
    /\ self_set' = IF RctValid(id)
                   THEN SelfSet("rct", id, rct_areActive'[id], rct_nextTrigs'[id])
                   ELSE self_set
    /\ rct_promised' = IF RctValid(id) /\ ~IsTrigged(rct_areTrigged', id)
                       THEN [rct_promised EXCEPT ![id] = -1]
                       ELSE rct_promised

SchdOpFrame ==
    /\ pc \in Callers
    /\ UserFrame
    /\ ret' = NoRet
    /\ UNCHANGED <<last_schd, last_rct, schd_tIntrvls, rct_tTimeouts, rct_tDelays,
                   rct_areActive, rct_areTrigged, rct_nextTrigs, rct_nextCalls,
                   schd_start, rct_start, rct_plain, rct_accept, rct_promised>>

RctOpFrame ==
    /\ pc \in Callers
    /\ UserFrame
    /\ ret' = NoRet
    /\ UNCHANGED <<last_schd, last_rct, schd_tIntrvls, schd_areActive, schd_nextCalls,
                   rct_tTimeouts, rct_tDelays, rct_nextCalls, schd_start, rct_start,
                   schd_plain, schd_count, schd_grid, rct_accept>>

\* mutant: pausing flips the flag
PauseFlagToggled(flags, id) == [flags EXCEPT ![id] = ~@]

\* schd_areActive[schd_id] = false / rct_areActive[rct_id] = false
PauseFlag(flags, id) == [flags EXCEPT ![id] = FALSE]

PauseSchedule(schd_id) ==
    /\ variant = "simple"
    /\ SchdOpFrame
    /\ schd_areActive' = IF SchdValid(schd_id)
                         THEN PauseFlag(schd_areActive, schd_id)
                         ELSE schd_areActive
    /\ UNCHANGED <<schd_nextCalls, schd_grid>>
    /\ SchdTouched(schd_id)

ResumeSchedule(schd_id, timestamp, abs) ==
    /\ variant = "simple"
    /\ SchdOpFrame
    /\ schd_areActive' = IF SchdValid(schd_id)
                         THEN [schd_areActive EXCEPT ![schd_id] = TRUE]
                         ELSE schd_areActive
    /\ schd_nextCalls' = IF SchdValid(schd_id)
                         THEN [schd_nextCalls EXCEPT ![schd_id] = Stamp(timestamp, abs)]
                         ELSE schd_nextCalls
    /\ schd_grid' = IF SchdValid(schd_id) /\ (timestamp # 0 \/ abs \/ schd_areActive[schd_id])
                     THEN [schd_grid EXCEPT ![schd_id] = FALSE]
                     ELSE schd_grid
    /\ SchdTouched(schd_id)

SetNextSchedule(schd_id, timestamp, abs) ==
    /\ variant = "tiny"
    /\ SchdOpFrame
    /\ schd_nextCalls' = IF SchdValid(schd_id)
                         THEN [schd_nextCalls EXCEPT
                                 ![schd_id] = Stamp(timestamp, ~(ToInt8(abs) < 1))]
                         ELSE schd_nextCalls
    /\ UNCHANGED schd_areActive
    /\ schd_grid' = IF SchdValid(schd_id) THEN [schd_grid EXCEPT ![schd_id] = FALSE]
                     ELSE schd_grid
    /\ SchdTouched(schd_id)

PauseTrigger(rct_id) ==
    /\ variant = "simple"
    /\ RctOpFrame
    /\ rct_areActive' = IF RctValid(rct_id)
                        THEN PauseFlag(rct_areActive, rct_id)
                        ELSE rct_areActive
    /\ UNCHANGED <<rct_nextTrigs, rct_areTrigged>>
    /\ RctTouched(rct_id)

ResumeTrigger(rct_id, timestamp, abs) ==
    /\ variant = "simple"
    /\ RctOpFrame
    /\ rct_areActive' = IF RctValid(rct_id)
                        THEN [rct_areActive EXCEPT ![rct_id] = TRUE]
                        ELSE rct_areActive
    /\ rct_nextTrigs' = IF RctValid(rct_id)
                        THEN [rct_nextTrigs EXCEPT ![rct_id] = Stamp(timestamp, abs)]
                        ELSE rct_nextTrigs
    /\ UNCHANGED rct_areTrigged
    /\ RctTouched(rct_id)

CancelReaction(rct_id, timestamp, abs) ==
    /\ variant = "simple"
    /\ RctOpFrame
    /\ rct_nextTrigs' = IF RctValid(rct_id)
                        THEN [rct_nextTrigs EXCEPT ![rct_id] = Stamp(timestamp, abs)]
                        ELSE rct_nextTrigs
    /\ rct_areTrigged' = IF RctValid(rct_id)
                         THEN ClearTrigged(rct_areTrigged, rct_id)
                         ELSE rct_areTrigged
    /\ UNCHANGED rct_areActive
    /\ RctTouched(rct_id)

\* mutant: stopping also restarts the debounce window at the time of the call
StopReactionReset(rct_id) == CancelReaction(rct_id, 0, FALSE)

StopReaction(rct_id) ==
    /\ variant = "simple"
    /\ RctOpFrame
    /\ rct_areTrigged' = IF RctValid(rct_id)
                         THEN ClearTrigged(rct_areTrigged, rct_id)
                         ELSE rct_areTrigged
    /\ UNCHANGED <<rct_areActive, rct_nextTrigs>>
    /\ RctTouched(rct_id)

\* mutant: reset_debounce is read as a C truth value
ResetDebounceNonZero(reset_debounce) == ToInt8(reset_debounce) # 0

\* if (reset_debounce > 0)
ResetDebounce(reset_debounce) == ToInt8(reset_debounce) > 0

CancelReactionTiny(rct_id, reset_debounce, timestamp, abs) ==
    /\ variant = "tiny"
    /\ RctOpFrame
    /\ rct_nextTrigs' = IF RctValid(rct_id) /\ ResetDebounce(reset_debounce)
                        THEN [rct_nextTrigs EXCEPT
                                ![rct_id] = Stamp(timestamp, ~(ToInt8(abs) < 1))]
                        ELSE rct_nextTrigs
    /\ rct_areTrigged' = IF RctValid(rct_id)
                         THEN ClearTrigged(rct_areTrigged, rct_id)
                         ELSE rct_areTrigged
    /\ UNCHANGED rct_areActive
    /\ RctTouched(rct_id)

SetNextTrigger(rct_id, timestamp, abs) ==
    /\ variant = "tiny"
    /\ RctOpFrame
    /\ rct_nextTrigs' = IF RctValid(rct_id)
                        THEN [rct_nextTrigs EXCEPT
                                ![rct_id] = Stamp(timestamp, ~(ToInt8(abs) < 1))]
                        ELSE rct_nextTrigs
    /\ UNCHANGED <<rct_areActive, rct_areTrigged>>
    /\ RctTouched(rct_id)

\* time passes while an action or a predicate called by run() executes
Elapse(d) ==
    /\ pc \in {"schd_cb", "exec_cb", "trig_cb", "trig_pred"}
    /\ clock + d <= MaxTime
    /\ clock' = clock + d
    /\ UNCHANGED <<variant, engine, pc, i, now, ret, begun, log, pre, ghost, last_op>>


\* ---------------------------------------------------------------- run
\* `elapsed`: the time loop() took since the last poll; unsigned long now = millis();
RunStartBy(elapsed, horizon) ==
    /\ pc = "idle"
    /\ begun > 0
    /\ clock + elapsed <= horizon
    /\ clock' = clock + elapsed
    /\ now' = clock'
    /\ i' = 0
    /\ pc' = "schd"
    /\ log' = <<>>
    /\ ret' = NoRet
    /\ last_op' = NoOp
    /\ UNCHANGED <<variant, engine, begun, pre, ghost>>

RunStart(elapsed) == RunStartBy(elapsed, MaxTime)

\* one iteration of: for (i = 0; i <= last_schd; i++)
SchdVisit ==
    /\ pc = "schd"
    /\ IF i > last_schd
       THEN /\ pc' = NextScan("schd")
            /\ i' = 0
            /\ UNCHANGED <<schd_nextCalls, log, pre, schd_count>>
       ELSE IF SchdDue(i)
       THEN /\ schd_nextCalls' = SchdAdvance(i)
            /\ pc' = "schd_cb"
            /\ log' = Append(log, Event("schd", i))
            /\ pre' = schd_nextCalls[i]
            /\ schd_count' = IF schd_plain[i] THEN [schd_count EXCEPT ![i] = @ + 1]
                             ELSE schd_count
            /\ UNCHANGED i
       ELSE /\ i' = i + 1
            /\ UNCHANGED <<pc, schd_nextCalls, log, pre, schd_count>>
    /\ UNCHANGED <<variant, clock, now, ret, begun, last_schd, last_rct, schd_tIntrvls,
                   schd_areActive, rct_tTimeouts, rct_tDelays, rct_areActive,
                   rct_areTrigged, rct_nextTrigs, rct_nextCalls, epoch, schd_start,
                   rct_start, schd_plain, rct_plain, rct_accept, rct_promised, self_set,
                   schd_grid, last_op>>

\* one iteration of the loop over the pending reactions
ExecVisit ==
    /\ pc = "exec"
    /\ IF i > last_rct
       THEN /\ pc' = NextScan("exec")
            /\ i' = 0
            /\ UNCHANGED <<rct_areTrigged, log, pre, rct_promised>>
       ELSE IF ExecDue(i)
       THEN /\ rct_areTrigged' = ClearTrigged(rct_areTrigged, i)
            /\ pc' = "exec_cb"
            /\ log' = Append(log, Event("exec", i))
            /\ pre' = rct_nextCalls[i]
            /\ rct_promised' = [rct_promised EXCEPT ![i] = -1]
            /\ UNCHANGED i
       ELSE /\ i' = i + 1
            /\ UNCHANGED <<pc, rct_areTrigged, log, pre, rct_promised>>
    /\ UNCHANGED <<variant, clock, now, ret, begun, last_schd, last_rct, schd_tIntrvls,
                   schd_areActive, schd_nextCalls, rct_tTimeouts, rct_tDelays,
                   rct_areActive, rct_nextTrigs, rct_nextCalls, epoch, schd_start,
                   rct_start, schd_plain, rct_plain, schd_count, rct_accept, self_set,
                   schd_grid, last_op>>

\* one iteration of the loop over the triggers, up to the call of the predicate
TrigVisit ==
    /\ pc = "trig"
    /\ IF i > last_rct
       THEN /\ pc' = NextScan("trig")
            /\ i' = 0
            /\ UNCHANGED <<log, pre>>
       ELSE IF TrigDue(i)
       THEN /\ pc' = "trig_pred"
            /\ log' = Append(log, Event("pred", i))
            /\ pre' = rct_nextTrigs[i]
            /\ UNCHANGED i
       ELSE /\ i' = i + 1
            /\ UNCHANGED <<pc, log, pre>>
    /\ UNCHANGED <<variant, clock, now, ret, begun, engine, ghost, last_op>>

\* mutant: every accepted trigger is queued, whatever the delay
ImmediateNever(id) == FALSE

\* if (rct_tDelays[i] == 0)
Immediate(id) == rct_tDelays[id] = 0

\* the predicate returns `result`; the body of the third loop
PredReturn(result) ==
    /\ pc = "trig_pred"
    /\ IF result
       THEN IF Immediate(i)
            THEN /\ rct_nextTrigs' = TrigRearm(i)
                 /\ pc' = "trig_cb"
                 /\ log' = log \o <<Event("accept", i), Event("react", i)>>
                 /\ UNCHANGED <<i, rct_nextCalls, rct_areTrigged, rct_promised>>
            ELSE /\ rct_nextTrigs' = TrigRearm(i)
                 /\ rct_nextCalls' = TrigSchedule(i)
                 /\ rct_areTrigged' = SetTrigged(rct_areTrigged, i)
                 /\ pc' = "trig"
                 /\ i' = i + 1
                 /\ log' = Append(log, Event("accept", i))
                 /\ rct_promised' = IF rct_promised[i] = -1
                                    THEN [rct_promised EXCEPT ![i] = now + rct_tDelays[i]]
                                    ELSE rct_promised
       ELSE /\ pc' = "trig"
            /\ i' = i + 1
            /\ UNCHANGED <<rct_nextTrigs, rct_nextCalls, rct_areTrigged, log, rct_promised>>
    /\ rct_accept' = IF result THEN [rct_accept EXCEPT ![i] = now] ELSE rct_accept
    /\ UNCHANGED <<variant, clock, now, ret, begun, pre, last_schd, last_rct,
                   schd_tIntrvls, schd_areActive, schd_nextCalls, rct_tTimeouts,
                   rct_tDelays, rct_areActive, epoch, schd_start, rct_start, schd_plain,
                   rct_plain, schd_count, self_set, schd_grid, last_op>>

\* mutant: the same entry is tested again after its action (a while for the if)
CallbackReturnRecheck ==
    /\ InCallback
    /\ pc' = (CASE pc = "schd_cb" -> "schd" [] pc = "exec_cb" -> "exec" [] OTHER -> "trig")
    /\ i' = i
    /\ last_op' = NoOp
    /\ UNCHANGED <<variant, clock, now, ret, begun, log, pre, engine, ghost>>

\* mutant: the schedule is advanced after its action has returned
CallbackReturnLateAdvance ==
    /\ InCallback
    /\ pc' = (CASE pc = "schd_cb" -> "schd" [] pc = "exec_cb" -> "exec" [] OTHER -> "trig")
    /\ i' = i + 1
    /\ schd_nextCalls' = IF pc = "schd_cb" THEN SchdAdvance(i) ELSE schd_nextCalls
    /\ UNCHANGED <<variant, clock, now, ret, begun, log, pre, last_schd, last_rct,
                   schd_tIntrvls, schd_areActive, rct_tTimeouts, rct_tDelays,
                   rct_areActive, rct_areTrigged, rct_nextTrigs, rct_nextCalls, ghost>>
    /\ last_op' = NoOp

\* mutant: the debounce window is armed after the action has returned
CallbackReturnLateRearm ==
    /\ InCallback
    /\ pc' = (CASE pc = "schd_cb" -> "schd" [] pc = "exec_cb" -> "exec" [] OTHER -> "trig")
    /\ i' = i + 1
    /\ rct_nextTrigs' = IF pc = "trig_cb" THEN TrigRearm(i) ELSE rct_nextTrigs
    /\ UNCHANGED <<variant, clock, now, ret, begun, log, pre, last_schd, last_rct,
                   schd_tIntrvls, schd_areActive, schd_nextCalls, rct_tTimeouts,
                   rct_tDelays, rct_areActive, rct_areTrigged, rct_nextCalls, ghost>>
    /\ last_op' = NoOp

\* the action returns; run() writes nothing and moves to the next entry
CallbackReturn ==
    /\ InCallback
    /\ pc' = (CASE pc = "schd_cb" -> "schd" [] pc = "exec_cb" -> "exec" [] OTHER -> "trig")
    /\ i' = i + 1
    /\ last_op' = NoOp
    /\ UNCHANGED <<variant, clock, now, ret, begun, log, pre, engine, ghost>>

RunEnd ==
    /\ pc = "end"
    /\ pc' = "idle"
    /\ log' = <<>>
    /\ pre' = 0
    /\ self_set' = NoSet
    /\ UNCHANGED <<variant, clock, i, now, ret, begun, engine, epoch, schd_start,
                   rct_start, schd_plain, rct_plain, schd_count, rct_accept,
                   rct_promised, schd_grid, last_op>>

\* ------------------------------------------------------ specifications
\* the timestamp arguments the sketches pass: small ones, relative or
\* absolute, and the far future as an absolute time
StampArgs == ((0 .. MaxStamp) \X BOOLEAN) \cup {<<FAR_FUTURE, TRUE>>}

\* control operations whose calls are not recorded
SchdControl ==
    /\ pc \in UserCode
    /\ \/ \E id \in SchdArgs : PauseSchedule(id)
       \/ \E id \in SchdArgs, a \in StampArgs : ResumeSchedule(id, a[1], a[2])
       \/ \E id \in SchdArgs, a \in StampArgs : SetNextSchedule(id, a[1], Flag8(a[2]))
    /\ last_op' = NoOp

RctControl ==
    /\ pc \in UserCode
    /\ \/ \E id \in RctArgs : PauseTrigger(id)
       \/ \E id \in RctArgs, a \in StampArgs : ResumeTrigger(id, a[1], a[2])
       \/ \E id \in RctArgs, a \in StampArgs : CancelReaction(id, a[1], a[2])
       \/ \E id \in RctArgs : StopReaction(id)
       \/ \E id \in RctArgs, rd \in Flags8, a \in StampArgs :
               CancelReactionTiny(id, rd, a[1], Flag8(a[2]))
       \/ \E id \in RctArgs, a \in StampArgs : SetNextTrigger(id, a[1], Flag8(a[2]))
    /\ last_op' = NoOp

RunSteps ==
    \/ \E elapsed \in 0 .. MaxStep : RunStart(elapsed)
    \/ SchdVisit
    \/ ExecVisit
    \/ TrigVisit
    \/ CallbackReturn
    \/ RunEnd

\* setup() calls begin() once, after the adds
BeginOnce == begun = 0 /\ Begin(BootTime)

\* a sketch with one schedule, whose action and loop() use the control
\* operations on schedules
SetupSchd ==
    /\ begun = 0
    /\ last_schd < 0
    /\ \E interval \in Intervals, delay_start \in Starts : AddSchedule(interval, delay_start)

NextSchd ==
    \/ SetupSchd
    \/ BeginOnce
    \/ RunSteps
    \/ SchdControl

SpecSchd == Init /\ [][NextSchd]_vars

\* a sketch with one reaction, whose action and loop() use the control
\* operations on reactions
SetupRct ==
    /\ begun = 0
    /\ last_rct < 0
    /\ \E timeout \in Waits, delay \in Waits : AddReaction(timeout, delay, 0)

NextRct ==
    \/ SetupRct
    \/ BeginOnce
    \/ RunSteps
    \/ \E result \in BOOLEAN : PredReturn(result)
    \/ RctControl

SpecRct == Init /\ [][NextRct]_vars

\* a sketch that fills both tables and uses no control operation; each of its
\* reactions is debounced for as long as it is delayed
SetupPair ==
    /\ begun = 0
    /\ \/ \E interval \in Intervals : AddSchedule(interval, 0)
       \/ \E wait \in Waits : AddReaction(wait, wait, 0)

NextPair ==
    \/ SetupPair
    \/ BeginOnce
    \/ RunSteps
    \/ \E result \in BOOLEAN : PredReturn(result)

SpecPair == Init /\ [][NextPair]_vars


\* polls that are never further apart than any schedule's interval
PacedPoll ==
    \E elapsed \in 0 .. MaxStep :
        /\ \A s \in SchdIds : s <= last_schd => elapsed <= schd_tIntrvls[s]
        /\ RunStart(elapsed)

SetupPaced ==
    /\ begun = 0
    /\ \E interval \in Intervals, delay_start \in Starts : AddSchedule(interval, delay_start)

\* a sketch with schedules only and no control operation, polled at that pace
NextPaced ==
    \/ SetupPaced
    \/ BeginOnce
    \/ PacedPoll
    \/ SchdVisit
    \/ ExecVisit
    \/ TrigVisit
    \/ CallbackReturn
    \/ RunEnd

SpecPaced == Init /\ [][NextPaced]_vars

\* a sketch whose reactions are immediate (delay 0) and whose predicates stay
\* true once they have been found true
SetupHeld ==
    /\ begun = 0
    /\ \E timeout \in Waits : AddReaction(timeout, 0, 0)

PredHeld ==
    \E result \in BOOLEAN :
        /\ pc = "trig_pred"
        /\ result \/ rct_accept[i] = -1
        /\ PredReturn(result)

NextHeld ==
    \/ SetupHeld
    \/ BeginOnce
    \/ RunSteps
    \/ PredHeld

SpecHeld == Init /\ [][NextHeld]_vars

\* ------------------------------------------------------------- claims
\* number of times the current run() has logged the event
Occurs(kind, id) == Cardinality({k \in 1 .. Len(log) : log[k] = Event(kind, id)})

\* nominal time of the next execution of a schedule no control operation touched
Nominal(s) == epoch + schd_start[s] + schd_count[s] * schd_tIntrvls[s]

C1_Phase ==
    \A s \in SchdIds :
        (s <= last_schd /\ begun > 0 /\ schd_plain[s]) => schd_nextCalls[s] = Nominal(s)

C1_Fire ==
    (pc = "schd" /\ i <= last_schd) =>
        LET due == (variant = "simple" => schd_areActive[i]) /\ schd_nextCalls[i] < now
        IN  /\ (pc' = "schd_cb") <=> due
            /\ due => /\ schd_nextCalls'[i] = schd_nextCalls[i] + schd_tIntrvls[i]
                      /\ log' = Append(log, Event("schd", i))
            /\ ~due => UNCHANGED <<schd_nextCalls, log>>

\* C1: run() invokes a schedule's action iff the schedule is active and
\* next_fire < now, and firing adds exactly one interval to next_fire; so for a
\* schedule no control operation has touched, next_fire = epoch + initial_delay
\* + k * interval, k being the number of invocations so far.
C1_SchedulePhase == [](C1_Phase) /\ [][C1_Fire]_vars

C1_Witness ==
    \E s \in SchdIds :
        /\ s <= last_schd /\ schd_plain[s]
        /\ schd_count[s] >= 2 /\ schd_start[s] = 1
        /\ schd_nextCalls[s] < now

\* the schedule scan of the tick in progress has dealt with schedule s
C2_Visited(s) ==
    \/ pc \notin {"schd", "schd_cb"}
    \/ i > s
    \/ pc = "schd_cb" /\ i = s

C2_NotLate ==
    \A s \in SchdIds :
        (s <= last_schd /\ begun > 0 /\ C2_Visited(s)) => now <= Nominal(s)

C2_Fire ==
    (pc = "schd" /\ i <= last_schd) =>
        /\ (pc' = "schd_cb") <=> (now > Nominal(i))
        /\ (pc' = "schd_cb") => schd_count'[i] = schd_count[i] + 1

\* C2: with polls no further apart than the interval (begin() being the first
\* poll) and no control operation, execution number k of a schedule happens in
\* the first tick whose now exceeds epoch + d + k * I: a tick executes it iff
\* its now exceeds that time, and no tick ends with that time already exceeded.
C2_ArithmeticSequence == [](C2_NotLate) /\ [][C2_Fire]_vars

C2_Witness ==
    /\ pc = "schd_cb"
    /\ schd_count[i] = 2 /\ schd_tIntrvls[i] = 2 /\ schd_start[i] = 1
    /\ now = pre + 1

\* C3: one run() invokes the action of a schedule at most once, also when the
\* schedule is behind by several intervals.
C3_AtMostOncePerRun == \A s \in SchdIds : Occurs("schd", s) <= 1

C3_Witness ==
    /\ pc = "end"
    /\ \E s \in SchdIds :
        /\ s <= last_schd /\ schd_plain[s]
        /\ Occurs("schd", s) = 1
        /\ schd_nextCalls[s] < now

Rank(e) == CASE e.kind = "schd" -> 0 [] e.kind = "exec" -> 1 [] OTHER -> 2

\* C4: within one run() every schedule action comes before every reaction
\* action, every due pending reaction is settled before any predicate is
\* evaluated, and each scan visits the entries in ascending id order.
C4_ScanOrder ==
    /\ \A a, b \in 1 .. Len(log) :
         a < b => /\ Rank(log[a]) <= Rank(log[b])
                  /\ Rank(log[a]) = Rank(log[b]) => log[a].id <= log[b].id
                  /\ log[a].kind = log[b].kind => log[a].id < log[b].id
    /\ pc \in {"trig", "trig_pred", "trig_cb", "end"} =>
         \A r \in RctIds : ~(r <= last_rct /\ Pending(r) /\ rct_nextCalls[r] < now)

C4_Witness ==
    /\ pc = "end"
    /\ Occurs("schd", 0) = 1 /\ Occurs("schd", 1) = 1
    /\ Occurs("exec", 0) = 1 /\ Occurs("exec", 1) = 1
    /\ Occurs("pred", 0) = 1 /\ Occurs("pred", 1) = 1

C5_Step ==
    (pc = "trig" /\ i <= last_rct) =>
        LET checked == (variant = "simple" => rct_areActive[i]) /\ rct_nextTrigs[i] < now
        IN  /\ (pc' = "trig_pred") <=> checked
            /\ checked => log' = Append(log, Event("pred", i))
            /\ ~checked => /\ log' = log
                           /\ i' = i + 1
                           /\ UNCHANGED engine

\* C5: the new-trigger scan invokes a reaction's predicate iff, when the entry
\* is visited, its trigger is active (simple variant) and next_trigger_check <
\* now, whether or not the reaction is pending.
C5_PredicateGuard == [][C5_Step]_vars

C5_Witness == pc = "trig_pred" /\ Pending(i) /\ rct_nextCalls[i] >= now

C6_Step ==
    (pc = "trig_pred" /\ pc' # "trig_pred") =>
        IF Len(log') > Len(log)
        THEN /\ rct_nextTrigs' = [rct_nextTrigs EXCEPT ![i] = now + rct_tTimeouts[i]]
             /\ IF rct_tDelays[i] = 0
                THEN /\ pc' = "trig_cb"
                     /\ log' = log \o <<Event("accept", i), Event("react", i)>>
                     /\ ~Pending(i)
                     /\ UNCHANGED <<rct_nextCalls, rct_areTrigged>>
                ELSE /\ pc' = "trig"
                     /\ log' = Append(log, Event("accept", i))
                     /\ rct_nextCalls' = [rct_nextCalls EXCEPT ![i] = now + rct_tDelays[i]]
                     /\ IsTrigged(rct_areTrigged', i)
                     /\ \A r \in RctIds :
                          r # i => IsTrigged(rct_areTrigged', r) = IsTrigged(rct_areTrigged, r)
        ELSE UNCHANGED engine

\* C6: a predicate that returns true at tick time now sets next_trigger_check
\* to now + timeout; with delay 0 the action is invoked in that scan and
\* pending stays false, with delay > 0 the action is not invoked, next_execution
\* becomes now + delay and pending becomes true.  A predicate that returns
\* false changes no field.
C6_TriggerAccepted == [][C6_Step]_vars

C6_Witness ==
    /\ pc = "trig"
    /\ \E r \in RctIds :
        /\ r < i /\ Pending(r) /\ rct_accept[r] = now
        /\ rct_tTimeouts[r] # rct_tDelays[r]
        /\ rct_nextTrigs[r] = now + rct_tTimeouts[r]
        /\ rct_nextCalls[r] = now + rct_tDelays[r]

C7_Step ==
    (pc = "exec" /\ i <= last_rct) =>
        LET due == Pending(i) /\ rct_nextCalls[i] < now
        IN  /\ due => /\ pc' = "exec_cb"
                      /\ ~IsTrigged(rct_areTrigged', i)
                      /\ log' = Append(log, Event("exec", i))
            /\ ~due => /\ pc' = "exec"
                       /\ i' = i + 1
                       /\ UNCHANGED <<log, rct_areTrigged>>

C7_Once ==
    /\ \A r \in RctIds : Occurs("exec", r) <= 1
    /\ pc = "exec_cb" => ~Pending(i)

\* C7: the settle-pending scan clears pending and then invokes the action, once,
\* of every reaction that is pending with next_execution < now; a pending
\* reaction with next_execution >= now stays pending and is not invoked; pending
\* is already false while the action runs.
C7_SettlePending == [](C7_Once) /\ [][C7_Step]_vars

C7_Witness == pc = "exec_cb" /\ ~Pending(i) /\ rct_plain[i] /\ pre = now - 1

C8_Window ==
    \A r \in RctIds :
        (r <= last_rct /\ rct_accept[r] # -1) =>
            /\ Occurs("react", r) <= 1
            /\ ~Pending(r)
            /\ pc \in {"idle", "end"} =>
                 /\ rct_nextTrigs[r] = rct_accept[r] + rct_tTimeouts[r]
                 /\ now <= rct_accept[r] + rct_tTimeouts[r]

C8_Step ==
    (pc = "trig_pred" /\ rct_accept[i] # -1) =>
        /\ pc' = "trig_cb"
        /\ now > rct_accept[i] + rct_tTimeouts[i]

\* C8: a reaction with delay 0 and timeout W whose predicate is found true at
\* tick time t and stays true executes once in tick t, not again in a tick with
\* now <= t + W, and next in the first tick with now > t + W.
C8_ImmediateDebounce == [](C8_Window) /\ [][C8_Step]_vars

C8_Witness ==
    /\ pc = "trig_cb"
    /\ rct_tTimeouts[i] >= 1
    /\ pre = now - 1
    /\ pre > epoch

\* C9: a reaction with delay D > 0 whose predicate is found true at tick time t
\* executes its action in the first tick whose now exceeds t + D, whatever the
\* predicate returns after t, unless it is cancelled or stopped: no tick ends
\* with t + D exceeded and the action not run.
C9_DelayedExecution ==
    pc = "end" =>
        \A r \in RctIds :
            (r <= last_rct /\ rct_plain[r] /\ rct_promised[r] # -1) => now <= rct_promised[r]

C10_Before ==
    (pc = "schd" /\ pc' = "schd_cb") =>
        schd_nextCalls'[i] = schd_nextCalls[i] + schd_tIntrvls[i]

C10_After ==
    (<<pc, i>>' # <<pc, i>> /\ pc # "schd") => UNCHANGED <<schd_nextCalls, schd_areActive>>

C10_Kept ==
    self_set.kind = "schd" =>
        /\ schd_nextCalls[self_set.id] = self_set.next
        /\ schd_areActive[self_set.id] = self_set.active

\* C10: when a schedule's action calls a control operation on its own id, run()
\* has already added the interval to next_fire and writes nothing to the entry
\* afterwards: until the end of the tick active and next_fire are what the
\* action set.
C10_ScheduleSelfControl == [](C10_Kept) /\ [][C10_Before /\ C10_After]_vars

C10_Witness ==
    /\ pc = "end"
    /\ self_set.kind = "schd"
    /\ self_set.next # pre + schd_tIntrvls[self_set.id]
    /\ schd_nextCalls[self_set.id] = self_set.next

C11_Before ==
    (pc = "trig_pred" /\ pc' = "trig_cb") =>
        rct_nextTrigs'[i] = now + rct_tTimeouts[i]

C11_After ==
    (<<pc, i>>' # <<pc, i>> /\ pc # "trig_pred") => UNCHANGED <<rct_nextTrigs, rct_areActive>>

C11_Kept ==
    self_set.kind = "rct" =>
        /\ rct_nextTrigs[self_set.id] = self_set.next
        /\ rct_areActive[self_set.id] = self_set.active

\* C11: when the action of a delay-0 reaction, invoked from the new-trigger
\* scan, calls resume_trigger, pause_trigger, cancel_reaction or
\* set_next_trigger on its own id, run() has already written next_trigger_check
\* = now + timeout and writes it no more: until the end of the tick
\* next_trigger_check and trigger_active are what the action set.
C11_ReactionSelfControl == [](C11_Kept) /\ [][C11_Before /\ C11_After]_vars

C11_Witness ==
    /\ pc = "end"
    /\ self_set.kind = "rct"
    /\ rct_tDelays[self_set.id] = 0
    /\ self_set.next # now + rct_tTimeouts[self_set.id]
    /\ rct_nextTrigs[self_set.id] = self_set.next

\* a sketch that adds schedules and reactions in setup(), goes on calling the
\* add operations from loop() once the tables are full, and uses no control
\* operation
SetupFill ==
    /\ begun = 0 \/ (SchdFull /\ RctFull)
    /\ \/ \E delay_start \in Starts : AddSchedule(MaxInterval, delay_start)
       \/ \E delay_start \in Starts : AddReaction(MaxWait, MaxWait, delay_start)

NextFill ==
    \/ SetupFill
    \/ BeginOnce
    \/ RunSteps
    \/ \E result \in BOOLEAN : PredReturn(result)

SpecFill == Init /\ [][NextFill]_vars

C12_Bounded == last_schd \in -1 .. T_MAX - 1 /\ last_rct \in -1 .. R_MAX - 1

C12_Step ==
    /\ last_schd' # last_schd =>
         /\ last_schd' = last_schd + 1
         /\ ret' = Ret("addSchedule", last_schd')
         /\ last_rct' = last_rct
    /\ last_rct' # last_rct =>
         /\ last_rct' = last_rct + 1
         /\ ret' = Ret("addReaction", last_rct')
         /\ last_schd' = last_schd
    /\ (ret' # ret /\ ret'.op = "addSchedule" /\ ret'.val # -1) =>
         ret'.val = last_schd + 1 /\ last_schd' = last_schd + 1
    /\ (ret' # ret /\ ret'.op = "addReaction" /\ ret'.val # -1) =>
         ret'.val = last_rct + 1 /\ last_rct' = last_rct + 1
    /\ \A s \in SchdIds :
         s <= last_schd => /\ schd_tIntrvls'[s] = schd_tIntrvls[s]
                           /\ schd_start'[s] = schd_start[s]
    /\ \A r \in RctIds :
         r <= last_rct => /\ rct_tTimeouts'[r] = rct_tTimeouts[r]
                          /\ rct_tDelays'[r] = rct_tDelays[r]
                          /\ rct_start'[r] = rct_start[r]

\* C12: each table counts its entries on its own; a successful add returns the
\* number of entries the table held before it (ids 0, 1, 2, ... in call order),
\* the entry of an id that was returned is never written by a later add, and no
\* table holds more ids than its capacity.
C12_DenseIds == [](C12_Bounded) /\ [][C12_Step]_vars

C12_Witness ==
    /\ ret = Ret("addReaction", 1)
    /\ last_schd = 1
    /\ schd_start[0] # schd_start[1]
    /\ rct_start[0] # rct_start[1]

C13_Step ==
    /\ (ret' # ret /\ ret'.op = "addSchedule") =>
         IF last_schd = T_MAX - 1
         THEN ret'.val = -1 /\ UNCHANGED <<engine, clock, now, pc, i, begun, ghost>>
         ELSE ret'.val = last_schd + 1
    /\ (ret' # ret /\ ret'.op = "addReaction") =>
         IF last_rct = R_MAX - 1
         THEN ret'.val = -1 /\ UNCHANGED <<engine, clock, now, pc, i, begun, ghost>>
         ELSE ret'.val = last_rct + 1

C13_Fires ==
    (pc = "schd" /\ i <= last_schd) =>
        ((pc' = "schd_cb") <=>
            ((variant = "simple" => schd_areActive[i]) /\ schd_nextCalls[i] < now))

\* C13: an add on a table that holds capacity entries returns -1 and changes
\* neither the entry count nor any field of any entry; an add on a table with
\* room does not return -1; the entries of a full table go on firing whenever
\* they are due.
C13_CapacityRejected == [][C13_Step /\ C13_Fires]_vars

C13_Witness ==
    /\ ret = Ret("addSchedule", -1)
    /\ begun > 0
    /\ last_schd = T_MAX - 1
    /\ schd_count[0] >= 1
    /\ schd_nextCalls[0] = Nominal(0)

C15_Step ==
    (begun' = begun + 1) =>
        /\ now' = clock'
        /\ \A s \in SchdIds :
             schd_nextCalls'[s] = IF s <= last_schd THEN schd_nextCalls[s] + now'
                                  ELSE schd_nextCalls[s]
        /\ \A r \in RctIds :
             rct_nextTrigs'[r] = IF r <= last_rct THEN rct_nextTrigs[r] + now'
                                 ELSE rct_nextTrigs[r]
        /\ begun = 0 =>
             /\ epoch' = now'
             /\ \A s \in SchdIds :
                  s <= last_schd => schd_nextCalls'[s] = epoch' + schd_start[s]
             /\ \A r \in RctIds :
                  r <= last_rct => rct_nextTrigs'[r] = epoch' + rct_start[r]
        /\ UNCHANGED <<last_schd, last_rct, schd_tIntrvls, schd_areActive, rct_tTimeouts,
                       rct_tDelays, rct_areActive, rct_areTrigged, rct_nextCalls>>
        /\ UNCHANGED <<pc, log>>

\* C15: begin() reads the clock once and adds that epoch to next_fire of every
\* schedule and next_trigger_check of every reaction added so far, which then
\* are epoch + initial_delay; it changes no interval, timeout, delay, active
\* flag, pending flag or next_execution and invokes no action or predicate.
C15_BeginAnchors == [][C15_Step]_vars

C15_Witness ==
    /\ begun = 1 /\ pc = "idle" /\ now = epoch /\ epoch > 0
    /\ last_schd = 1 /\ last_rct = 1
    /\ schd_start[1] = 1 /\ schd_nextCalls[1] = epoch + 1
    /\ rct_start[0] = 1 /\ rct_nextTrigs[0] = epoch + 1
    /\ schd_nextCalls[0] = epoch

\* calls of the control operations on schedules with ids from `ids`, recorded
SchdCalls(ids) ==
    /\ pc \in UserCode
    /\ \/ \E id \in ids : PauseSchedule(id) /\ Called("pauseSchedule", id, 0, 0, 0)
       \/ \E id \in ids, a \in StampArgs :
            ResumeSchedule(id, a[1], a[2]) /\ Called("resumeSchedule", id, 0, a[1], Flag8(a[2]))
       \/ \E id \in ids, a \in StampArgs :
            /\ SetNextSchedule(id, a[1], Flag8(a[2]))
            /\ Called("setNextSchedule", id, 0, a[1], Flag8(a[2]))

\* calls of the control operations on reactions with ids from `ids`, recorded
RctCalls(ids) ==
    /\ pc \in UserCode
    /\ \/ \E id \in ids : PauseTrigger(id) /\ Called("pauseTrigger", id, 0, 0, 0)
       \/ \E id \in ids, a \in StampArgs :
            ResumeTrigger(id, a[1], a[2]) /\ Called("resumeTrigger", id, 0, a[1], Flag8(a[2]))
       \/ \E id \in ids, a \in StampArgs :
            CancelReaction(id, a[1], a[2]) /\ Called("cancelReaction", id, 1, a[1], Flag8(a[2]))
       \/ \E id \in ids : StopReaction(id) /\ Called("stopReaction", id, 0, 0, 0)
       \/ \E id \in ids, rd \in Flags8, a \in StampArgs :
            /\ CancelReactionTiny(id, rd, a[1], Flag8(a[2]))
            /\ Called("cancelReaction", id, rd, a[1], Flag8(a[2]))
       \/ \E id \in ids, a \in StampArgs :
            /\ SetNextTrigger(id, a[1], Flag8(a[2]))
            /\ Called("setNextTrigger", id, 0, a[1], Flag8(a[2]))

\* ids that are negative or above the highest id allocated so far
StraySchdIds == {id \in SchdArgs : id < 0 \/ id > last_schd}
StrayRctIds == {id \in RctArgs : id < 0 \/ id > last_rct}

\* a sketch with at most one schedule and one reaction, whose loop() and
\* actions call the control operations with ids that were never allocated
SetupStray ==
    /\ begun = 0
    /\ \/ last_schd < 0 /\ AddSchedule(MaxInterval, 0)
       \/ last_rct < 0 /\ AddReaction(MaxWait, MaxWait, 0)

NextStray ==
    \/ SetupStray
    \/ BeginOnce
    \/ RunSteps
    \/ \E result \in BOOLEAN : PredReturn(result)
    \/ SchdCalls(StraySchdIds)
    \/ RctCalls(StrayRctIds)

SpecStray == Init /\ [][NextStray]_vars

SchdOps == {"pauseSchedule", "resumeSchedule", "setNextSchedule"}

C14_Stray(o) ==
    IF o.op \in SchdOps THEN o.id < 0 \/ o.id > last_schd
    ELSE o.id < 0 \/ o.id > last_rct

C14_Step ==
    (last_op' # NoOp /\ C14_Stray(last_op')) =>
        /\ UNCHANGED <<engine, clock, now, pc, i, begun, log, pre, ghost>>
        /\ ret' = NoRet

\* C14: a control operation of either variant called with an id that is
\* negative or greater than the highest id allocated so far in its table, ids
\* below the capacity included, changes no state and returns nothing.
C14_StrayIdNoOp == [][C14_Step]_vars

C14_Witness ==
    /\ pc = "schd_cb"
    /\ last_schd = 0
    /\ last_op.op = "resumeSchedule" /\ last_op.id = 1 /\ last_op.ts = FAR_FUTURE
    /\ last_op.again

\* a sketch (full variant) with one entry, a schedule or a reaction, whose
\* loop() and actions pause and resume it; the calls are recorded
SetupResume ==
    /\ begun = 0
    /\ variant = "simple"
    /\ last_schd < 0 /\ last_rct < 0
    /\ \/ \E interval \in Intervals : AddSchedule(interval, 0)
       \/ \E timeout \in Waits, delay \in Waits : AddReaction(timeout, delay, 0)

ResumeCalls ==
    /\ pc \in UserCode
    /\ \/ \E id \in SchdIds :
            id <= last_schd /\ PauseSchedule(id) /\ Called("pauseSchedule", id, 0, 0, 0)
       \/ \E id \in SchdIds, a \in StampArgs :
            /\ id <= last_schd
            /\ ResumeSchedule(id, a[1], a[2])
            /\ Called("resumeSchedule", id, 0, a[1], Flag8(a[2]))
       \/ \E id \in RctIds :
            id <= last_rct /\ PauseTrigger(id) /\ Called("pauseTrigger", id, 0, 0, 0)
       \/ \E id \in RctIds, a \in StampArgs :
            /\ id <= last_rct
            /\ ResumeTrigger(id, a[1], a[2])
            /\ Called("resumeTrigger", id, 0, a[1], Flag8(a[2]))

NextResume ==
    \/ SetupResume
    \/ BeginOnce
    \/ RunSteps
    \/ \E result \in BOOLEAN : PredReturn(result)
    \/ ResumeCalls

SpecResume == Init /\ [][NextResume]_vars

C16_Paused ==
    (last_op.op = "pauseSchedule" /\ SchdValid(last_op.id)) => ~schd_areActive[last_op.id]

C16_Again ==
    (last_op'.op = "pauseSchedule" /\ last_op'.again) =>
        UNCHANGED <<engine, clock, now, pc, i, begun, log, pre, ghost>>

\* C16: pause_schedule is idempotent: after pause_schedule(id), once or
\* repeatedly, the schedule is inactive, and a second pause_schedule(id)
\* applied right after the first changes nothing at all.
C16_PauseIdempotent == [](C16_Paused) /\ [][C16_Again]_vars

C16_Witness ==
    /\ pc = "schd_cb"
    /\ last_op.op = "pauseSchedule" /\ last_op.id = i /\ last_op.again
    /\ ~schd_areActive[i]

C17_Pause ==
    (last_op'.op = "pauseSchedule" /\ SchdValid(last_op'.id)) =>
        /\ schd_areActive' = [schd_areActive EXCEPT ![last_op'.id] = FALSE]
        /\ UNCHANGED <<last_schd, last_rct, schd_tIntrvls, schd_nextCalls, rct_tTimeouts,
                       rct_tDelays, rct_areActive, rct_areTrigged, rct_nextTrigs,
                       rct_nextCalls>>

C17_Frozen ==
    \A s \in SchdIds :
        (s <= last_schd /\ ~schd_areActive[s] /\ <<pc, i>>' # <<pc, i>>) =>
            /\ schd_nextCalls'[s] = schd_nextCalls[s]
            /\ ~schd_areActive'[s]
            /\ ~(pc = "schd" /\ i = s /\ pc' = "schd_cb")
            /\ ~(Len(log') > Len(log) /\ log'[Len(log')] = Event("schd", s))

\* C17: pause_schedule(id) changes only the active flag of entry id, and while
\* the schedule is paused no step of run() invokes its action or changes its
\* next_fire, however far the clock is past next_fire.
C17_PauseFreezes == [][C17_Pause /\ C17_Frozen]_vars

C17_Witness ==
    /\ pc = "end"
    /\ last_schd = 0 /\ ~schd_areActive[0]
    /\ schd_nextCalls[0] + schd_tIntrvls[0] < now
    /\ Occurs("schd", 0) = 0

C18_Stamp(o) == IF o.abs = 1 THEN o.ts ELSE (clock + o.ts) % ULONG_MOD

C18_Step ==
    /\ (last_op'.op = "resumeSchedule" /\ SchdValid(last_op'.id)) =>
         /\ schd_areActive' = [schd_areActive EXCEPT ![last_op'.id] = TRUE]
         /\ schd_nextCalls' = [schd_nextCalls EXCEPT ![last_op'.id] = C18_Stamp(last_op')]
         /\ UNCHANGED <<last_schd, last_rct, schd_tIntrvls, rct_tTimeouts, rct_tDelays,
                        rct_areActive, rct_areTrigged, rct_nextTrigs, rct_nextCalls>>
    /\ (last_op'.op = "resumeTrigger" /\ RctValid(last_op'.id)) =>
         /\ rct_areActive' = [rct_areActive EXCEPT ![last_op'.id] = TRUE]
         /\ rct_nextTrigs' = [rct_nextTrigs EXCEPT ![last_op'.id] = C18_Stamp(last_op')]
         /\ UNCHANGED <<last_schd, last_rct, schd_tIntrvls, schd_areActive, schd_nextCalls,
                        rct_tTimeouts, rct_tDelays, rct_areTrigged, rct_nextCalls>>

C19_PhaseSurvivesResume ==
    \A s \in SchdIds :
        (begun > 0 /\ s <= last_schd /\ schd_grid[s]) =>
            (schd_nextCalls[s] - epoch - schd_start[s]) % schd_tIntrvls[s] = 0

C20_Pause ==
    (last_op'.op = "pauseTrigger" /\ RctValid(last_op'.id)) =>
        /\ rct_areActive' = [rct_areActive EXCEPT ![last_op'.id] = FALSE]
        /\ UNCHANGED <<last_schd, last_rct, schd_tIntrvls, schd_areActive, schd_nextCalls,
                       rct_tTimeouts, rct_tDelays, rct_areTrigged, rct_nextTrigs,
                       rct_nextCalls>>

C20_Settled ==
    (pc = "exec" /\ i <= last_rct /\ ~rct_areActive[i]
       /\ Pending(i) /\ rct_nextCalls[i] < now /\ <<pc, i>>' # <<pc, i>>) =>
        /\ pc' = "exec_cb" /\ i' = i
        /\ log' = Append(log, Event("exec", i))
        /\ ~Pending(i)'

C20_Skipped ==
    \A r \in RctIds :
        (r <= last_rct /\ ~rct_areActive[r] /\ <<pc, i>>' # <<pc, i>>) =>
            /\ ~(pc' = "trig_pred" /\ i' = r)
            /\ ~(Len(log') > Len(log) /\ log'[Len(log')] = Event("pred", r))
            /\ rct_nextTrigs'[r] = rct_nextTrigs[r]

C20_NoneLeft ==
    pc \in {"trig", "trig_pred", "trig_cb", "end"} =>
        \A r \in RctIds :
            (r <= last_rct /\ ~rct_areActive[r] /\ Pending(r)) => rct_nextCalls[r] >= now

\* C20: pending and trigger_active are independent: pause_trigger(id) clears
\* only trigger_active; a reaction that is pending while its trigger is paused
\* has its action executed in the first tick with now > next_execution, and
\* its predicate is not evaluated for as long as the trigger stays paused.
C20_PendingIndependent ==
    [](C20_NoneLeft) /\ [][C20_Pause /\ C20_Settled /\ C20_Skipped]_vars

C20_Witness ==
    /\ pc = "exec_cb"
    /\ last_rct = 0 /\ i = 0 /\ ~rct_areActive[0]
    /\ rct_nextTrigs[0] < now
    /\ log = <<Event("exec", 0)>>

\* a sketch with one reaction, whose loop() and actions cancel, stop or
\* re-time it (either variant); the calls are recorded
SetupCancel ==
    /\ begun = 0
    /\ last_rct < 0
    /\ \E timeout \in Waits, delay \in Waits : AddReaction(timeout, delay, 0)

NextCancel ==
    \/ SetupCancel
    \/ BeginOnce
    \/ RunSteps
    \/ \E result \in BOOLEAN : PredReturn(result)
    \/ RctCalls(0 .. last_rct)

SpecCancel == Init /\ [][NextCancel]_vars

C21_Cancel ==
    (variant = "simple" /\ last_op'.op = "cancelReaction" /\ RctValid(last_op'.id)) =>
        /\ rct_areTrigged' = [rct_areTrigged EXCEPT ![last_op'.id] = FALSE]
        /\ rct_nextTrigs' = [rct_nextTrigs EXCEPT ![last_op'.id] = C18_Stamp(last_op')]
        /\ UNCHANGED <<last_schd, last_rct, schd_tIntrvls, schd_areActive, schd_nextCalls,
                       rct_tTimeouts, rct_tDelays, rct_areActive, rct_nextCalls>>

\* an action queued for later runs only while the reaction is pending, and a
\* reaction becomes pending only when run() accepts its predicate
C21_Queued ==
    \A r \in RctIds :
        /\ (Len(log') > Len(log) /\ log'[Len(log')] = Event("exec", r)) => Pending(r)
        /\ (r <= last_rct /\ ~Pending(r) /\ Pending(r)') =>
               /\ pc = "trig_pred" /\ i = r
               /\ log' = Append(log, Event("accept", r))

\* C21: full-variant cancel_reaction(id, ts, absolute) clears pending and sets
\* next_trigger_check to ts (absolute) or clock-at-call + ts (relative) and
\* changes nothing else; called between a trigger and its execution it
\* prevents that execution: the action is not invoked unless the predicate is
\* accepted again later.
C21_CancelReaction == [][C21_Cancel /\ C21_Queued]_vars

C21_Witness ==
    /\ variant = "simple"
    /\ last_op.op = "cancelReaction" /\ last_op.id = 0 /\ last_op.abs = 0 /\ last_op.ts = 1
    /\ pc = "idle" /\ begun > 0
    /\ rct_tDelays[0] > 0 /\ rct_accept[0] >= 0
    /\ rct_nextCalls[0] = rct_accept[0] + rct_tDelays[0] /\ clock <= rct_nextCalls[0]
    /\ ~Pending(0)
    /\ rct_nextTrigs[0] = clock + 1

\* a sketch (full variant) with one reaction, whose loop() and actions stop
\* it and use no other control operation
StopCalls ==
    /\ pc \in UserCode
    /\ \E id \in 0 .. last_rct : StopReaction(id) /\ Called("stopReaction", id, 0, 0, 0)

NextStop ==
    \/ SetupCancel
    \/ BeginOnce
    \/ RunSteps
    \/ \E result \in BOOLEAN : PredReturn(result)
    \/ StopCalls

SpecStop == Init /\ [][NextStop]_vars

C22_Stop ==
    (last_op'.op = "stopReaction" /\ RctValid(last_op'.id)) =>
        /\ rct_areTrigged' = [rct_areTrigged EXCEPT ![last_op'.id] = FALSE]
        /\ UNCHANGED <<last_schd, last_rct, schd_tIntrvls, schd_areActive, schd_nextCalls,
                       rct_tTimeouts, rct_tDelays, rct_areActive, rct_nextTrigs,
                       rct_nextCalls>>

\* the predicate is called only after the window of the latest accepted trigger
C22_Window ==
    \A r \in RctIds :
        (pc = "trig" /\ pc' = "trig_pred" /\ i = r /\ rct_accept[r] >= 0) =>
            now > rct_accept[r] + rct_tTimeouts[r]

\* the action of a stopped reaction runs only after a new accepted trigger
C22_Unqueued ==
    \A r \in RctIds :
        (Len(log') > Len(log) /\ log'[Len(log')] = Event("exec", r)) =>
            /\ Pending(r)
            /\ rct_promised[r] >= 0

\* C22: stop_reaction(id) clears pending and leaves next_trigger_check (the
\* debounce window t + W), trigger_active and every other field unchanged;
\* called before t + D it prevents the queued execution, and the predicate is
\* still not evaluated again until now > t + W.
C22_StopReaction == [][C22_Stop /\ C22_Window /\ C22_Unqueued]_vars

C22_Witness ==
    /\ last_op.op = "stopReaction" /\ last_op.id = 0
    /\ pc = "idle" /\ begun > 0
    /\ rct_tDelays[0] > 0 /\ rct_accept[0] >= 0
    /\ clock <= rct_accept[0] + rct_tDelays[0]
    /\ clock < rct_accept[0] + rct_tTimeouts[0]
    /\ rct_nextTrigs[0] = rct_accept[0] + rct_tTimeouts[0]
    /\ ~Pending(0) /\ rct_promised[0] = -1

\* a sketch that fills both tables and uses no control operation, whose
\* actions and predicates take time: millis() advances while they execute
NextDrift ==
    \/ SetupPair
    \/ BeginOnce
    \/ RunSteps
    \/ \E result \in BOOLEAN : PredReturn(result)
    \/ \E d \in 1 .. MaxStep : Elapse(d)

SpecDrift == Init /\ [][NextDrift]_vars

C23_Sampled == pc # "idle" => now <= clock

C23_Step ==
    /\ pc = "idle" => (now' = clock' \/ now' = now)
    /\ pc # "idle" => now' = now
    /\ (pc = "schd" /\ i <= last_schd) =>
          (pc' = "schd_cb" <=> /\ variant = "simple" => schd_areActive[i]
                               /\ schd_nextCalls[i] < now)
    /\ (pc = "exec" /\ i <= last_rct) =>
          (pc' = "exec_cb" <=> (Pending(i) /\ rct_nextCalls[i] < now))
    /\ (pc = "trig" /\ i <= last_rct) =>
          (pc' = "trig_pred" <=> /\ variant = "simple" => rct_areActive[i]
                                 /\ rct_nextTrigs[i] < now)
    /\ (pc = "trig_pred" /\ Len(log') > Len(log)) =>
          /\ rct_nextTrigs'[i] = (now + rct_tTimeouts[i]) % ULONG_MOD
          /\ rct_tDelays[i] > 0 => rct_nextCalls'[i] = (now + rct_tDelays[i]) % ULONG_MOD

\* C23: within one run(), every due-comparison (next_fire < now,
\* next_execution < now, next_trigger_check < now) and every timestamp the
\* engine writes (now + timeout, now + delay) uses the single clock value
\* sampled at the start of that run(), even when the clock advances while
\* actions and predicates execute.
C23_SingleSample == [](C23_Sampled) /\ [][C23_Step]_vars

C23_Witness ==
    /\ pc = "trig" /\ i = 1
    /\ clock > now
    /\ rct_tDelays[0] > 0 /\ Pending(0)
    /\ rct_nextCalls[0] = now + rct_tDelays[0]
    /\ rct_nextTrigs[0] = now + rct_tTimeouts[0]
    /\ rct_nextCalls[0] < clock
    /\ Len(log) > 0 /\ log[Len(log)] = Event("accept", 0)

\* C24: in every reachable state a reaction that is pending has delay > 0: a
\* reaction added with delay = 0 is never pending, under any sequence of
\* ticks and control operations.
C24_PendingHasDelay ==
    \A r \in RctIds : (r <= last_rct /\ Pending(r)) => rct_tDelays[r] > 0

C24_Witness ==
    /\ pc = "trig_cb"
    /\ rct_tDelays[i] = 0 /\ ~Pending(i)
    /\ log[Len(log)] = Event("react", i)
    /\ rct_nextTrigs[i] # now + rct_tTimeouts[i]

\* C25: the timeout of a reaction is automatically at least as long as its
\* delay: the effective debounce window is max(timeout, delay), so after an
\* accepted trigger at t the predicate is not evaluated again before
\* t + delay.
C25_WindowCoversDelay ==
    [][\A r \in RctIds :
         (pc = "trig" /\ pc' = "trig_pred" /\ i = r /\ rct_accept[r] >= 0) =>
             now >= rct_accept[r] + rct_tDelays[r]]_vars

\* ------------------------------------------------- end-to-end scenarios
PollEvery == 10         \* loop() takes this long: run() is polled every 10 ms
SchdEvery == 1000       \* interval of the schedule of the scenario
SchdUntil == 3010       \* the schedule scenario is observed up to this time

\* setup(): one schedule of interval SchdEvery and initial delay 0, then
\* begin() at millis() = 0
SetupTimed ==
    /\ begun = 0
    /\ \/ last_schd < 0 /\ AddSchedule(SchdEvery, 0)
       \/ last_schd = 0 /\ Begin(0)

\* loop(): run() is called every PollEvery
NextTimed ==
    \/ SetupTimed
    \/ RunStartBy(PollEvery, SchdUntil)
    \/ SchdVisit
    \/ ExecVisit
    \/ TrigVisit
    \/ CallbackReturn
    \/ RunEnd

SpecTimed == Init /\ [][NextTimed]_vars

\* the original reading: no execution before the first interval has passed
C26_LateCount ==
    (pc = "idle" /\ begun > 0) =>
        /\ schd_count[0] * SchdEvery < clock \/ clock = 0
        /\ clock <= (schd_count[0] + 1) * SchdEvery

C26_LateFire ==
    (pc = "schd" /\ pc' = "schd_cb") =>
        /\ i = 0 /\ schd_count'[0] = schd_count[0] + 1
        /\ schd_count'[0] * SchdEvery < now
        /\ now <= schd_count'[0] * SchdEvery + PollEvery

\* C26 as stated: end-to-end schedule scenario: with one schedule of interval
\* 1000 and initial_delay 0, begin() at t = 0 and run() polled every 10 ms,
\* the executions occur at t ~ 1000, 2000, 3000, ... (the first execution is
\* the one near t = 1000), each within one poll of its time.
C26_FirstAfterInterval == [](C26_LateCount) /\ [][C26_LateFire]_vars

\* after a poll the schedule has run once for the time of begin() and once
\* for every multiple of the interval before the time of the poll
C26_Count ==
    (pc = "idle" /\ begun > 0) =>
        IF clock = 0 THEN schd_count[0] = 0
        ELSE /\ (schd_count[0] - 1) * SchdEvery < clock
             /\ clock <= schd_count[0] * SchdEvery

\* the k-th execution happens in the first poll after (k - 1) * SchdEvery
C26_Fire ==
    (pc = "schd" /\ pc' = "schd_cb") =>
        /\ i = 0 /\ schd_count'[0] = schd_count[0] + 1
        /\ schd_count[0] * SchdEvery < now
        /\ now <= schd_count[0] * SchdEvery + PollEvery

\* C26 amended: in the same scenario the executions occur at
\* t ~ 0, 1000, 2000, 3000, ...: the first one in the first poll after
\* begin(), since initial_delay = 0 makes the schedule due at once, and every
\* later one within one poll of the next multiple of the interval.
C26_ScheduleScenario == [](C26_Count) /\ [][C26_Fire]_vars

C26_Witness ==
    /\ pc = "schd_cb" /\ i = 0
    /\ schd_count[0] = 4 /\ now = 3010
    /\ schd_nextCalls[0] = 4000

RctTimeout == 4000      \* timeout of the reaction of the scenario
RctDelay == 2000        \* delay of the reaction of the scenario
PressAt == 100          \* the predicate is true from this time on
RctUntil == 4200        \* the reaction scenario is observed up to this time

\* setup(): one reaction of timeout RctTimeout and delay RctDelay, then
\* begin() at millis() = 0
SetupPress ==
    /\ begun = 0
    /\ \/ last_rct < 0 /\ AddReaction(RctTimeout, RctDelay, 0)
       \/ last_rct = 0 /\ Begin(0)

\* the predicate is false before PressAt and true in the first tick from
\* PressAt on; whatever it would return later is left open
PredPress ==
    \E result \in BOOLEAN :
        /\ pc = "trig_pred"
        /\ rct_accept[i] = -1 => (result <=> now >= PressAt)
        /\ PredReturn(result)

NextPress ==
    \/ SetupPress
    \/ RunStartBy(PollEvery, RctUntil)
    \/ SchdVisit
    \/ ExecVisit
    \/ TrigVisit
    \/ PredPress
    \/ CallbackReturn
    \/ RunEnd

SpecPress == Init /\ [][NextPress]_vars

\* the action runs in the first tick after t + delay, and only then
C27_Exec ==
    (pc = "exec" /\ pc' = "exec_cb") =>
        /\ i = 0 /\ rct_accept[0] >= PressAt
        /\ now > rct_accept[0] + RctDelay
        /\ now <= rct_accept[0] + RctDelay + PollEvery

\* the predicate is not evaluated while the window of the trigger is closed
C27_Pred ==
    (pc = "trig" /\ pc' = "trig_pred" /\ rct_accept[0] >= 0) =>
        now > rct_accept[0] + RctTimeout

\* once t + delay has passed, nothing is left pending from the trigger at t
C27_Done ==
    (pc = "idle" /\ rct_accept[0] >= 0 /\ clock > rct_accept[0] + RctDelay) => ~Pending(0)

\* C27: end-to-end reaction scenario: with a reaction of timeout 4000 and
\* delay 2000 whose predicate is true at the tick at t = 100, the action
\* executes once, in the first tick after t = 2100; a predicate that would
\* return true at t = 1000 is not evaluated and causes no second execution,
\* and the predicate is evaluated again only in ticks with now > 4100.
C27_ReactionScenario == [](C27_Done) /\ [][C27_Exec /\ C27_Pred]_vars

C27_Witness ==
    /\ pc = "trig_pred" /\ i = 0
    /\ rct_accept[0] = 100 /\ now = 4110
    /\ rct_nextCalls[0] = 2100 /\ ~Pending(0)

\* a sketch (compact variant) with one entry, a schedule or a reaction, whose
\* loop() and actions set the time of its next call or check, the far future
\* included; the calls are recorded
SetupSentinel ==
    /\ begun = 0
    /\ variant = "tiny"
    /\ last_schd < 0 /\ last_rct < 0
    /\ \/ \E interval \in Intervals : AddSchedule(interval, 0)
       \/ \E timeout \in Waits, delay \in Waits : AddReaction(timeout, delay, 0)

SentinelCalls ==
    /\ pc \in UserCode
    /\ \/ \E id \in 0 .. last_schd, a \in StampArgs :
            /\ SetNextSchedule(id, a[1], Flag8(a[2]))
            /\ Called("setNextSchedule", id, 0, a[1], Flag8(a[2]))
       \/ \E id \in 0 .. last_rct, a \in StampArgs :
            /\ SetNextTrigger(id, a[1], Flag8(a[2]))
            /\ Called("setNextTrigger", id, 0, a[1], Flag8(a[2]))

NextSentinel ==
    \/ SetupSentinel
    \/ BeginOnce
    \/ RunSteps
    \/ \E result \in BOOLEAN : PredReturn(result)
    \/ SentinelCalls

SpecSentinel == Init /\ [][NextSentinel]_vars

C28_Set ==
    /\ (last_op'.op = "setNextSchedule" /\ last_op'.ts = FAR_FUTURE /\ last_op'.abs = 1) =>
          schd_nextCalls'[last_op'.id] = FAR_FUTURE
    /\ (last_op'.op = "setNextTrigger" /\ last_op'.ts = FAR_FUTURE /\ last_op'.abs = 1) =>
          rct_nextTrigs'[last_op'.id] = FAR_FUTURE

\* no step of run() invokes the action, or moves the time, of a schedule or a
\* trigger that is set to the far future
C28_Parked ==
    <<pc, i>>' # <<pc, i>> =>
        /\ \A s \in SchdIds :
             (s <= last_schd /\ schd_nextCalls[s] = FAR_FUTURE) =>
                 /\ schd_nextCalls'[s] = FAR_FUTURE
                 /\ ~(Len(log') > Len(log) /\ log'[Len(log')] = Event("schd", s))
        /\ \A r \in RctIds :
             (r <= last_rct /\ rct_nextTrigs[r] = FAR_FUTURE) =>
                 /\ rct_nextTrigs'[r] = FAR_FUTURE
                 /\ ~(pc' = "trig_pred" /\ i' = r)
                 /\ ~(Len(log') > Len(log) /\ log'[Len(log')] = Event("pred", r))

\* a pending execution is settled when due although the trigger is parked
C28_Settled ==
    (pc = "exec" /\ i <= last_rct /\ rct_nextTrigs[i] = FAR_FUTURE
       /\ Pending(i) /\ rct_nextCalls[i] < now) =>
        /\ pc' = "exec_cb"
        /\ log' = Append(log, Event("exec", i))

C28_NoneLeft ==
    pc \in {"trig", "trig_pred", "trig_cb", "end"} =>
        \A r \in RctIds :
            (r <= last_rct /\ rct_nextTrigs[r] = FAR_FUTURE /\ Pending(r)) =>
                rct_nextCalls[r] >= now

\* C28: compact variant, sentinel pause: after set_next_schedule(id, MAX,
\* absolute), MAX the largest timestamp, the schedule's action is not invoked
\* in any later tick and its next_fire stays MAX until a control operation
\* changes it; after set_next_trigger(id, MAX, absolute) the predicate is
\* never evaluated, while an already pending execution still fires when due.
C28_SentinelPause == [](C28_NoneLeft) /\ [][C28_Set /\ C28_Parked /\ C28_Settled]_vars

C28_Witness ==
    /\ variant = "tiny"
    /\ pc = "exec_cb"
    /\ rct_nextTrigs[i] = FAR_FUTURE
    /\ log = <<Event("exec", i)>>
    /\ ~Pending(i)

\* values passed as reset_debounce, and timestamps passed with them: one
\* relative and one absolute
ResetArgs == {-1, 0, 1}
UndoStamps == {<<1, FALSE>>, <<MaxStamp, TRUE>>}

\* a sketch (compact variant) with two delayed reactions, whose loop() and
\* actions cancel them; the calls are recorded
SetupUndo ==
    /\ begun = 0
    /\ variant = "tiny"
    /\ AddReaction(MaxWait, MaxWait, 0)

UndoCalls ==
    /\ pc \in UserCode
    /\ \E id \in 0 .. last_rct, rd \in ResetArgs, a \in UndoStamps :
           /\ CancelReactionTiny(id, rd, a[1], Flag8(a[2]))
           /\ Called("cancelReaction", id, rd, a[1], Flag8(a[2]))

NextUndo ==
    \/ SetupUndo
    \/ last_rct = R_MAX - 1 /\ BeginOnce
    \/ RunSteps
    \/ \E result \in BOOLEAN : PredReturn(result)
    \/ UndoCalls

SpecUndo == Init /\ [][NextUndo]_vars

C29_Step ==
    (variant = "tiny" /\ last_op'.op = "cancelReaction" /\ RctValid(last_op'.id)) =>
        /\ ~IsTrigged(rct_areTrigged', last_op'.id)
        /\ \A r \in RctIds : r # last_op'.id => (IsTrigged(rct_areTrigged', r) <=> Pending(r))
        /\ rct_nextTrigs' = IF last_op'.rd > 0
                            THEN [rct_nextTrigs EXCEPT ![last_op'.id] = C18_Stamp(last_op')]
                            ELSE rct_nextTrigs
        /\ UNCHANGED <<last_schd, last_rct, schd_tIntrvls, schd_areActive, schd_nextCalls,
                       rct_tTimeouts, rct_tDelays, rct_areActive, rct_nextCalls>>

\* C29: compact-variant cancel_reaction(id, reset_debounce, ts, absolute)
\* always clears the pending flag of reaction id; it sets next_trigger_check
\* (to ts if absolute, else clock-at-call + ts) iff reset_debounce is
\* positive, and otherwise leaves next_trigger_check unchanged and ignores ts
\* and absolute.
C29_CancelTiny == [][C29_Step]_vars

C29_Witness ==
    /\ variant = "tiny"
    /\ last_op.op = "cancelReaction" /\ last_op.id = 0 /\ last_op.rd = -1
    /\ last_op.ts = 1 /\ last_op.abs = 0
    /\ pc = "idle" /\ begun > 0
    /\ rct_accept[0] >= 0 /\ clock <= rct_accept[0] + rct_tDelays[0]
    /\ ~Pending(0) /\ Pending(1)
    /\ rct_nextTrigs[0] = rct_accept[0] + rct_tTimeouts[0]
    /\ rct_nextTrigs[0] # clock + 1

\* the state of the compact engine as the full one holds it: one boolean per
\* reaction, and the active flags the full variant sets in its adds
C30_Flags == [r \in RctIds |-> Pending(r)]
C30_FlagsNext == [r \in RctIds |-> IsTrigged(rct_areTrigged', r)]
C30_SchdActive == [s \in SchdIds |-> s <= last_schd]
C30_RctActive == [r \in RctIds |-> r <= last_rct]

\* without control operations the full engine is in exactly that state
C30_View ==
    /\ variant = "simple" =>
          /\ rct_areTrigged = C30_Flags
          /\ schd_areActive = C30_SchdActive
          /\ rct_areActive = C30_RctActive
    /\ \A w \in Waits : NarrowIn("tiny", w) = NarrowIn("simple", w)

\* every step of run(), in either variant, is the step the full variant
\* takes from that state
C30_Step ==
    /\ (pc = "schd" /\ i <= last_schd) =>
          (pc' = "schd_cb" <=> SchdDueIn("simple", C30_SchdActive, i))
    /\ (pc = "exec" /\ i <= last_rct) =>
          (pc' = "exec_cb" <=> (IsTriggedIn("simple", C30_Flags, i) /\ rct_nextCalls[i] < now))
    /\ (pc = "trig" /\ i <= last_rct) =>
          (pc' = "trig_pred" <=> TrigDueIn("simple", C30_RctActive, i))
    /\ C30_FlagsNext =
          IF pc = "exec" /\ pc' = "exec_cb"
          THEN ClearTriggedIn("simple", C30_Flags, i)
          ELSE IF pc = "trig_pred" /\ pc' = "trig" /\ Len(log') > Len(log)
          THEN SetTriggedIn("simple", C30_Flags, i)
          ELSE C30_Flags

\* C30: the compact variant is behaviourally equivalent to the full variant
\* on the common operations: for the same add_schedule / add_reaction /
\* begin / run calls, the same clock readings and the same predicate results
\* (arguments within the compact field widths, no control operation) both
\* invoke the same predicates and actions in the same order in every tick;
\* the bit-packed pending flags behave like one boolean per reaction.
C30_VariantsAgree == [](C30_View) /\ [][C30_Step]_vars

C30_Witness ==
    /\ variant = "tiny"
    /\ pc = "exec_cb" /\ i = 0
    /\ last_rct = 1
    /\ rct_areTrigged[0] = 2
    /\ log[Len(log)] = Event("exec", 0)

\* C31: one run() invokes the action of a reaction at most once: the settle scan
\* and the trigger scan never both invoke the action of the same reaction in one
\* tick, whatever the timeout, the delay and the control operations the
\* callbacks perform.
C31_OncePerRun == \A r \in RctIds : Occurs("exec", r) + Occurs("react", r) <= 1

C31_Witness ==
    /\ pc = "end"
    /\ Occurs("exec", 0) = 1
    /\ Occurs("accept", 0) = 1
    /\ Pending(0)

C32_Guarded(r) ==
    /\ r <= last_rct
    /\ rct_plain[r]
    /\ rct_tTimeouts[r] >= rct_tDelays[r]
    /\ rct_tDelays[r] > 0

C32_Kept ==
    \A r \in RctIds :
        (C32_Guarded(r) /\ Pending(r)) =>
            /\ rct_accept[r] # -1
            /\ rct_nextCalls[r] = rct_accept[r] + rct_tDelays[r]
            /\ rct_promised[r] = rct_nextCalls[r]
            /\ rct_nextTrigs[r] = rct_accept[r] + rct_tTimeouts[r]
            /\ pc \in {"idle", "trig", "trig_pred", "trig_cb", "end"} => now <= rct_nextCalls[r]

C32_Step ==
    /\ (pc' = "trig_pred" /\ pc # "trig_pred" /\ C32_Guarded(i)) => ~Pending(i)
    /\ (pc' = "exec_cb" /\ pc # "exec_cb" /\ C32_Guarded(i)) =>
          /\ Pending(i)
          /\ ~IsTrigged(rct_areTrigged', i)
          /\ rct_nextCalls[i] = rct_accept[i] + rct_tDelays[i]
          /\ Occurs("pred", i) = 0

\* C32: a reaction with timeout >= delay > 0 that no control operation touches
\* is never triggered again while pending: from the accepted trigger at t until
\* the execution, next_execution stays t + delay and the predicate is not
\* evaluated; the execution happens in the first tick with now > t + delay, so
\* accepted triggers and executions alternate.
C32_NoRetrigger == [](C32_Kept) /\ [][C32_Step]_vars

C32_Witness ==
    /\ pc = "exec_cb"
    /\ rct_plain[i]
    /\ rct_tTimeouts[i] > rct_tDelays[i] /\ rct_tDelays[i] > 0
    /\ pre = rct_accept[i] + rct_tDelays[i]
    /\ now = pre + 1

\* a sketch with one entry, a schedule or a reaction of either variant, whose
\* loop() and actions use every control operation
SetupSolo ==
    /\ begun = 0
    /\ last_schd < 0 /\ last_rct < 0
    /\ \/ \E interval \in Intervals, delay_start \in Starts : AddSchedule(interval, delay_start)
       \/ \E timeout \in Waits, delay \in Waits : AddReaction(timeout, delay, 0)

NextSolo ==
    \/ SetupSolo
    \/ BeginOnce
    \/ RunSteps
    \/ \E result \in BOOLEAN : PredReturn(result)
    \/ SchdControl
    \/ RctControl

SpecSolo == Init /\ [][NextSolo]_vars

C33_Step ==
    /\ (pc' = "exec_cb" /\ pc # "exec_cb") =>
          /\ rct_tDelays[i] > 0
          /\ rct_accept[i] # -1
          /\ now > rct_accept[i] + rct_tDelays[i]
    /\ (pc' = "schd_cb" /\ pc # "schd_cb") => now > schd_nextCalls[i]

\* C33: no delayed action runs early: the action of a reaction with delay D > 0
\* is not invoked in a tick with now <= a + D, a being the tick time of the
\* reaction's latest accepted trigger, and the action of a schedule is not
\* invoked in a tick with now <= the next_fire it held when it was visited.
C33_NeverEarly == [][C33_Step]_vars

C33_Witness ==
    /\ pc = "exec_cb"
    /\ rct_tTimeouts[i] < rct_tDelays[i]
    /\ ~rct_plain[i]
    /\ pre = rct_accept[i] + rct_tDelays[i]
    /\ now = pre + 1

\* relative timestamps passed from inside a tick; the largest unsigned long is
\* one of them
RelStamps == {0, MaxStamp, FAR_FUTURE}

\* a sketch with one schedule and one reaction whose actions and predicate take
\* time and call the stamp-setting control operations with relative timestamps
SetupInTick ==
    /\ begun = 0
    /\ \/ last_schd < 0 /\ AddSchedule(MaxInterval, 0)
       \/ last_rct < 0 /\ \E delay \in {0, MaxWait} : AddReaction(MaxWait, delay, 0)

InTickCalls ==
    /\ pc \in Callers \ {"idle"}
    /\ \/ \E id \in 0 .. last_schd, r \in RelStamps :
            ResumeSchedule(id, r, FALSE) /\ Called("resumeSchedule", id, 0, r, 0)
       \/ \E id \in 0 .. last_schd, r \in RelStamps :
            SetNextSchedule(id, r, 0) /\ Called("setNextSchedule", id, 0, r, 0)
       \/ \E id \in 0 .. last_rct, r \in RelStamps :
            ResumeTrigger(id, r, FALSE) /\ Called("resumeTrigger", id, 0, r, 0)
       \/ \E id \in 0 .. last_rct, r \in RelStamps :
            CancelReaction(id, r, FALSE) /\ Called("cancelReaction", id, 1, r, 0)
       \/ \E id \in 0 .. last_rct, r \in RelStamps :
            CancelReactionTiny(id, 1, r, 0) /\ Called("cancelReaction", id, 1, r, 0)
       \/ \E id \in 0 .. last_rct, r \in RelStamps :
            SetNextTrigger(id, r, 0) /\ Called("setNextTrigger", id, 0, r, 0)

NextInTick ==
    \/ SetupInTick
    \/ BeginOnce
    \/ RunSteps
    \/ \E result \in BOOLEAN : PredReturn(result)
    \/ \E d \in 1 .. MaxStep : Elapse(d)
    \/ InTickCalls

SpecInTick == Init /\ [][NextInTick]_vars

\* the step is a call of a stamp-setting operation with a relative timestamp
C34_Call == last_op' # NoOp /\ pc' = pc /\ clock' = clock

C34_Written ==
    IF last_op'.op \in SchdOps THEN schd_nextCalls'[last_op'.id]
    ELSE rct_nextTrigs'[last_op'.id]

\* the entry the last call addressed passes the test of its scan
C34_Due == IF last_op.op \in SchdOps THEN SchdDue(last_op.id) ELSE TrigDue(last_op.id)

C34_AnyStep == C34_Call => C34_Written >= now

\* C34 as stated, for every relative timestamp R >= 0: the timestamp written by
\* a control operation called from an action or a predicate is >= the tick's now.
C34_AnyRelative == [][C34_AnyStep]_vars

C34_Step ==
    (C34_Call /\ clock + last_op'.ts < ULONG_MOD) =>
        /\ C34_Written = clock + last_op'.ts
        /\ C34_Written >= now
        /\ ~C34_Due'

\* C34: with a clock that does not go back, a control operation called from an
\* action or a predicate with a relative timestamp R, clock + R not beyond the
\* largest unsigned long, writes clock + R >= the tick's now: the entry is not
\* due for the rest of the tick.
C34_RelativeNotDue == [][C34_Step]_vars

C34_Witness ==
    /\ pc = "end"
    /\ Occurs("schd", 0) = 1
    /\ Occurs("pred", 0) = 0
    /\ last_rct = 0
    /\ rct_nextTrigs[0] = now

\* a sketch with two schedules and one delayed reaction whose actions disable
\* entries, pausing or parking (compact variant) a schedule and stopping or
\* cancelling the reaction, and make due at once a schedule the scan has passed
SetupCross ==
    /\ begun = 0
    /\ \/ AddSchedule(MaxInterval, 0)
       \/ last_schd = T_MAX - 1 /\ AddReaction(MaxWait, MaxWait, 0)

CrossCalls ==
    /\ InCallback
    /\ \/ \E id \in 0 .. last_schd : PauseSchedule(id)
       \/ \E id \in 0 .. last_schd : SetNextSchedule(id, FAR_FUTURE, 1)
       \/ \E id \in 0 .. (i - 1) : pc = "schd_cb" /\ ResumeSchedule(id, 0, TRUE)
       \/ \E id \in 0 .. (i - 1) : pc = "schd_cb" /\ SetNextSchedule(id, 0, 1)
       \/ \E id \in 0 .. last_rct : StopReaction(id)
       \/ \E id \in 0 .. last_rct : CancelReaction(id, 0, FALSE)
       \/ \E id \in 0 .. last_rct : CancelReactionTiny(id, 1, 0, 0)
    /\ last_op' = NoOp

NextCross ==
    \/ SetupCross
    \/ last_schd = T_MAX - 1 /\ BeginOnce
    \/ RunSteps
    \/ \E result \in BOOLEAN : PredReturn(result)
    \/ CrossCalls

SpecCross == Init /\ [][NextCross]_vars

C35_Visit ==
    /\ (pc = "schd" /\ i <= last_schd) =>
          LET due == (variant = "simple" => schd_areActive[i]) /\ schd_nextCalls[i] < now
          IN  /\ (pc' = "schd_cb") <=> due
              /\ due => log' = Append(log, Event("schd", i)) /\ i' = i
              /\ ~due => log' = log /\ i' = i + 1 /\ pc' = "schd"
    /\ (pc = "exec" /\ i <= last_rct) =>
          LET due == IsTrigged(rct_areTrigged, i) /\ rct_nextCalls[i] < now
          IN  /\ (pc' = "exec_cb") <=> due
              /\ due => log' = Append(log, Event("exec", i)) /\ i' = i
              /\ ~due => log' = log /\ i' = i + 1 /\ pc' = "exec"
    /\ (pc = "trig" /\ i <= last_rct) =>
          LET due == (variant = "simple" => rct_areActive[i]) /\ rct_nextTrigs[i] < now
          IN  /\ (pc' = "trig_pred") <=> due
              /\ due => log' = Append(log, Event("pred", i)) /\ i' = i
              /\ ~due => log' = log /\ i' = i + 1 /\ pc' = "trig"

\* a control operation called by an action invokes nothing and moves no scan
C35_Call == (InCallback /\ pc' = pc) => UNCHANGED <<i, now, log>>

\* the entries a scan has passed are not invoked again by that scan
C35_Passed ==
    \A k \in 1 .. Len(log) :
        /\ (log[k].kind = "schd" /\ pc = "schd") => log[k].id < i
        /\ (log[k].kind = "exec" /\ pc = "exec") => log[k].id < i
        /\ (log[k].kind = "pred" /\ pc = "trig") => log[k].id < i
        /\ \A m \in 1 .. Len(log) : (m # k /\ log[m].kind = log[k].kind) => log[m].id # log[k].id

\* C35: each scan tests an entry on the fields it holds when the entry is
\* visited, not on their values at the start of the tick: what an action did to
\* an entry not yet visited decides whether that entry is invoked in this tick,
\* and what it did to an entry the scan has passed invokes nothing in this tick.
C35_ReadAtVisit == [](C35_Passed) /\ [][C35_Visit /\ C35_Call]_vars

C35_Witness ==
    /\ pc = "end"
    /\ last_schd = 1
    /\ Occurs("schd", 0) = 1 /\ Occurs("schd", 1) = 0
    /\ schd_plain[0] /\ schd_count[0] = 1
    /\ schd_nextCalls[1] = epoch + schd_start[1]
    /\ schd_nextCalls[1] < now
    /\ variant = "simple" /\ ~schd_areActive[1]
    /\ last_rct = 0 /\ rct_accept[0] = -1
    /\ Occurs("pred", 0) = 0
    /\ rct_nextTrigs[0] = now

\* the oldest of the clock and the timestamps of the allocated schedules
Oldest == LET S == {clock} \cup {schd_nextCalls[s] : s \in 0 .. last_schd}
          IN  CHOOSE x \in S : \A y \in S : x <= y

\* run() and begin() only add to timestamps and compare them with now, so the
\* origin of time can be moved: between two polls every time is counted from
\* the oldest one.  The history that refers to absolute times is dropped.
Rebase ==
    /\ pc = "idle"
    /\ begun > 0
    /\ Oldest > 0
    /\ clock' = clock - Oldest
    /\ now' = now - Oldest
    /\ schd_nextCalls' = [s \in SchdIds |-> IF s <= last_schd
                                            THEN schd_nextCalls[s] - Oldest
                                            ELSE schd_nextCalls[s]]
    /\ schd_plain' = [s \in SchdIds |-> FALSE]
    /\ schd_count' = [s \in SchdIds |-> 0]
    /\ schd_grid' = [s \in SchdIds |-> FALSE]
    /\ UNCHANGED <<variant, pc, i, ret, begun, log, pre, last_schd, last_rct,
                   schd_tIntrvls, schd_areActive, rct_tTimeouts, rct_tDelays,
                   rct_areActive, rct_areTrigged, rct_nextTrigs, rct_nextCalls, epoch,
                   schd_start, rct_start, rct_plain, rct_accept, rct_promised, self_set,
                   last_op>>

\* some schedule is behind the clock
Behind == \E s \in 0 .. last_schd : schd_nextCalls[s] < clock

\* loop() polls; while a schedule is behind, the clock advances by less than
\* every interval from one poll to the next
LivePoll(elapsed) ==
    /\ Oldest = 0
    /\ Behind => \A s \in 0 .. last_schd : elapsed < schd_tIntrvls[s]
    /\ RunStart(elapsed)

\* a sketch with schedules only and no control operation, polled for ever
NextLive ==
    \/ SetupPaced
    \/ BeginOnce
    \/ Rebase
    \/ \E elapsed \in 0 .. MaxStep : LivePoll(elapsed)
    \/ SchdVisit
    \/ ExecVisit
    \/ TrigVisit
    \/ CallbackReturn
    \/ RunEnd

\* run() and the actions return, loop() calls run() again and again, and the
\* clock keeps increasing
FairLive ==
    /\ WF_vars(SchdVisit)
    /\ WF_vars(ExecVisit)
    /\ WF_vars(TrigVisit)
    /\ WF_vars(CallbackReturn)
    /\ WF_vars(RunEnd)
    /\ WF_vars(Rebase)
    /\ WF_vars(\E elapsed \in 0 .. MaxStep : LivePoll(elapsed))
    /\ SF_vars(\E elapsed \in 1 .. MaxStep : LivePoll(elapsed))

SpecLive == Init /\ [][NextLive]_vars /\ FairLive

C36_Often ==
    \A s \in SchdIds :
        [](begun > 0 /\ s <= last_schd => <>(pc = "schd_cb" /\ i = s))

C36_CatchUp ==
    \A s \in SchdIds :
        [](begun > 0 /\ s <= last_schd /\ schd_nextCalls[s] < now
               => <>(schd_nextCalls[s] >= now))

\* C36: when run() is called again and again and the clock keeps increasing
\* without wrapping, the action of every schedule with interval > 0 (never
\* paused) is invoked infinitely often; and a schedule that is behind is back
\* to next_fire >= now after finitely many ticks when the clock advances by
\* less than an interval per tick.
C36_ScheduleLiveness == C36_Often /\ C36_CatchUp

C36_Witness ==
    /\ pc = "schd_cb"
    /\ ~schd_plain[i]
    /\ now >= pre + 2 * schd_tIntrvls[i]
    /\ last_schd = 1

\* the second argument of the cancelReaction calls of cancel_reset_LEDs
ResetMs == 250

\* the sketch of the compact variant reduced to two reactions on the same
\* button: reaction 0 acts at once and cancels reaction 1, which is delayed
SetupReset ==
    /\ begun = 0
    /\ variant = "tiny"
    /\ \/ last_rct < 0 /\ AddReaction(MaxWait, 0, 0)
       \/ last_rct = 0 /\ AddReaction(MaxWait, MaxWait, 0)

\* cancel_reset_LEDs: mainloop.cancelReaction(k, 250)
ResetCalls ==
    /\ pc = "trig_cb"
    /\ i = 0
    /\ last_op = NoOp
    /\ CancelReactionTiny(1, ResetMs, 0, 0)
    /\ Called("cancelReaction", 1, ResetMs, 0, 0)

NextReset ==
    \/ SetupReset
    \/ last_rct = R_MAX - 1 /\ BeginOnce
    \/ RunSteps
    \/ \E result \in BOOLEAN : PredReturn(result)
    \/ ResetCalls

SpecReset == Init /\ [][NextReset]_vars

C37_Step ==
    (last_op'.op = "cancelReaction" /\ last_op'.rd = ResetMs /\ last_op # last_op') =>
        /\ ~IsTrigged(rct_areTrigged', last_op'.id)
        /\ rct_nextTrigs'[last_op'.id] = clock + ResetMs

\* C37: each call cancelReaction(k, 250) of cancel_reset_LEDs on the compact
\* variant cancels the pending execution of reaction k and resets its debounce:
\* next_trigger_check becomes the clock at the call + 250.
C37_CancelResetsDebounce == [][C37_Step]_vars

\* a sketch that goes on adding schedules and reactions from loop() after
\* begin(), and calls begin() a second time
SetupAnytime ==
    \/ \E delay_start \in Starts : AddSchedule(MaxInterval, delay_start)
    \/ last_rct < 0 /\ \E delay_start \in Starts : AddReaction(MaxWait, 0, delay_start)

BeginAgain == begun < 2 /\ Begin(BootTime)

NextAnytime ==
    \/ SetupAnytime
    \/ BeginAgain
    \/ RunSteps
    \/ \E result \in BOOLEAN : PredReturn(result)

SpecAnytime == Init /\ [][NextAnytime]_vars

C38_Step ==
    /\ (last_schd' = last_schd + 1 /\ begun > 0) =>
          /\ schd_nextCalls'[last_schd'] = schd_start'[last_schd']
          /\ \A s \in SchdIds : s # last_schd' => schd_nextCalls'[s] = schd_nextCalls[s]
    /\ (last_rct' = last_rct + 1 /\ begun > 0) =>
          /\ rct_nextTrigs'[last_rct'] = rct_start'[last_rct']
          /\ \A r \in RctIds : r # last_rct' => rct_nextTrigs'[r] = rct_nextTrigs[r]
    /\ (begun' = begun + 1 /\ begun > 0) =>
          /\ \A s \in SchdIds :
               s <= last_schd => schd_nextCalls'[s] = schd_nextCalls[s] + clock'
          /\ \A r \in RctIds :
               r <= last_rct => rct_nextTrigs'[r] = rct_nextTrigs[r] + clock'
    /\ (pc = "schd" /\ i <= last_schd /\ begun = 1 /\ schd_nextCalls[i] = schd_start[i]) =>
          ((pc' = "schd_cb") <=> (now > schd_start[i]))
    /\ (pc = "trig" /\ i <= last_rct /\ begun = 1 /\ rct_nextTrigs[i] = rct_start[i]) =>
          ((pc' = "trig_pred") <=> (now > rct_start[i]))

\* C38: begin() anchors only the entries that exist when it is called: an entry
\* added after begin() keeps next_fire / next_trigger_check equal to the
\* initial_delay it was given, so it is due in the first tick with now >
\* initial_delay; a second begin() adds the clock to every timestamp again.
C38_AnchorsExisting == [][C38_Step]_vars

C38_Witness ==
    /\ pc = "schd_cb"
    /\ begun = 1
    /\ last_schd = 1 /\ i = 1
    /\ schd_start[1] = 1 /\ pre = 1
    /\ now = epoch + 1
    /\ schd_nextCalls[0] = epoch + schd_start[0] + schd_tIntrvls[0]

\* capacity of a compact instance large enough for a second flag byte
WideMax == 10
WideIds == 0 .. (WideMax - 1)
WideBytes == (7 + WideMax) \div BYTE_BITS

\* the state after construction of either the two-entry instance or of a
\* compact instance with WideMax reactions, of which only the packed pending
\* flags are followed
InitFrame ==
    \/ Init
    \/ /\ variant = "tiny"
       /\ clock = 0
       /\ last_schd = -1
       /\ last_rct = -1
       /\ schd_tIntrvls = [s \in SchdIds |-> 0]
       /\ schd_areActive = [s \in SchdIds |-> FALSE]
       /\ schd_nextCalls = [s \in SchdIds |-> 0]
       /\ rct_tTimeouts = [r \in RctIds |-> 0]
       /\ rct_tDelays = [r \in RctIds |-> 0]
       /\ rct_areActive = [r \in RctIds |-> FALSE]
       /\ rct_areTrigged = [b \in 0 .. (WideBytes - 1) |-> 0]
       /\ rct_nextTrigs = [r \in RctIds |-> 0]
       /\ rct_nextCalls = [r \in RctIds |-> 0]
       /\ pc = "idle"
       /\ i = 0
       /\ now = 0
       /\ ret = NoRet
       /\ begun = 0
       /\ log = <<>>
       /\ pre = 0
       /\ epoch = 0
       /\ schd_start = [s \in SchdIds |-> 0]
       /\ rct_start = [r \in RctIds |-> 0]
       /\ schd_plain = [s \in SchdIds |-> FALSE]
       /\ rct_plain = [r \in RctIds |-> FALSE]
       /\ schd_count = [s \in SchdIds |-> 0]
       /\ rct_accept = [r \in RctIds |-> -1]
       /\ rct_promised = [r \in RctIds |-> -1]
       /\ self_set = NoSet
       /\ schd_grid = [s \in SchdIds |-> FALSE]
       /\ last_op = NoOp

Wide == variant = "tiny" /\ DOMAIN rct_areTrigged = 0 .. (WideBytes - 1)

\* rct_areTrigged[i/8] |= (0x01 << (i%8)) for a reaction of the large instance
WideSet(id) ==
    /\ Wide
    /\ rct_areTrigged' = BitSet(rct_areTrigged, id)
    /\ i' = id
    /\ Called("set", id, 0, 0, 0)
    /\ UNCHANGED <<variant, clock, pc, now, ret, begun, log, pre, ghost, last_schd,
                   last_rct, schd_tIntrvls, schd_areActive, schd_nextCalls, rct_tTimeouts,
                   rct_tDelays, rct_areActive, rct_nextTrigs, rct_nextCalls>>

\* rct_areTrigged[i/8] &= ~(0x01 << (i%8)) for a reaction of the large instance
WideClear(id) ==
    /\ Wide
    /\ rct_areTrigged' = BitClear(rct_areTrigged, id)
    /\ i' = id
    /\ Called("clear", id, 0, 0, 0)
    /\ UNCHANGED <<variant, clock, pc, now, ret, begun, log, pre, ghost, last_schd,
                   last_rct, schd_tIntrvls, schd_areActive, schd_nextCalls, rct_tTimeouts,
                   rct_tDelays, rct_areActive, rct_nextTrigs, rct_nextCalls>>

\* the two-entry sketch: both tables are filled in setup() and loop() calls
\* one control operation between two polls
SetupFrame ==
    /\ ~Wide
    /\ begun = 0
    /\ \/ AddSchedule(MaxInterval, 0)
       \/ AddReaction(MaxWait, 1, 0)

FrameStamps == {<<MaxStamp, FALSE>>}

\* the polls of the two-entry sketch are followed up to this time
FrameUntil == 4

FrameCalls ==
    /\ pc = "idle"
    /\ begun > 0
    /\ last_op = NoOp
    /\ \/ \E id \in SchdIds : PauseSchedule(id) /\ Called("pauseSchedule", id, 0, 0, 0)
       \/ \E id \in SchdIds, a \in FrameStamps :
            /\ ResumeSchedule(id, a[1], a[2])
            /\ Called("resumeSchedule", id, 0, a[1], Flag8(a[2]))
       \/ \E id \in SchdIds, a \in FrameStamps :
            /\ SetNextSchedule(id, a[1], Flag8(a[2]))
            /\ Called("setNextSchedule", id, 0, a[1], Flag8(a[2]))
       \/ \E id \in RctIds : PauseTrigger(id) /\ Called("pauseTrigger", id, 0, 0, 0)
       \/ \E id \in RctIds, a \in FrameStamps :
            /\ ResumeTrigger(id, a[1], a[2])
            /\ Called("resumeTrigger", id, 0, a[1], Flag8(a[2]))
       \/ \E id \in RctIds, a \in FrameStamps :
            /\ CancelReaction(id, a[1], a[2])
            /\ Called("cancelReaction", id, 1, a[1], Flag8(a[2]))
       \/ \E id \in RctIds : StopReaction(id) /\ Called("stopReaction", id, 0, 0, 0)
       \/ \E id \in RctIds, a \in FrameStamps :
            /\ CancelReactionTiny(id, 1, a[1], Flag8(a[2]))
            /\ Called("cancelReaction", id, 1, a[1], Flag8(a[2]))
       \/ \E id \in RctIds, a \in FrameStamps :
            /\ SetNextTrigger(id, a[1], Flag8(a[2]))
            /\ Called("setNextTrigger", id, 0, a[1], Flag8(a[2]))

NextFrame ==
    \/ SetupFrame
    \/ last_schd = T_MAX - 1 /\ last_rct = R_MAX - 1 /\ BeginOnce
    \/ \E elapsed \in 1 .. MaxStep : RunStartBy(elapsed, FrameUntil)
    \/ SchdVisit
    \/ ExecVisit
    \/ TrigVisit
    \/ CallbackReturn
    \/ RunEnd
    \/ \E result \in BOOLEAN : PredReturn(result)
    \/ FrameCalls
    \/ \E id \in WideIds : WideSet(id)
    \/ \E id \in WideIds : WideClear(id)

SpecFrame == InitFrame /\ [][NextFrame]_vars

RctOps == {"pauseTrigger", "resumeTrigger", "cancelReaction", "stopReaction",
           "setNextTrigger"}

\* every field of schedule s / reaction r, its pending flag included
C39_SchdKept(s) ==
    /\ schd_tIntrvls'[s] = schd_tIntrvls[s]
    /\ schd_areActive'[s] = schd_areActive[s]
    /\ schd_nextCalls'[s] = schd_nextCalls[s]

C39_RctKept(r) ==
    /\ rct_tTimeouts'[r] = rct_tTimeouts[r]
    /\ rct_tDelays'[r] = rct_tDelays[r]
    /\ rct_areActive'[r] = rct_areActive[r]
    /\ rct_nextTrigs'[r] = rct_nextTrigs[r]
    /\ rct_nextCalls'[r] = rct_nextCalls[r]
    /\ IsTrigged(rct_areTrigged', r) = IsTrigged(rct_areTrigged, r)

C39_Bits ==
    (Wide /\ last_op'.op \in {"set", "clear"} /\ i' = last_op'.id) =>
        /\ BitTest(rct_areTrigged', last_op'.id) = (last_op'.op = "set")
        /\ \A k \in WideIds :
             k # last_op'.id => BitTest(rct_areTrigged', k) = BitTest(rct_areTrigged, k)
        /\ \A b \in DOMAIN rct_areTrigged' : rct_areTrigged'[b] \in 0 .. 255

C39_Control ==
    (~Wide /\ pc = "idle" /\ pc' = "idle" /\ last_op' # NoOp) =>
        /\ last_op'.op \in SchdOps =>
             /\ \A s \in SchdIds : s # last_op'.id => C39_SchdKept(s)
             /\ \A r \in RctIds : C39_RctKept(r)
        /\ last_op'.op \in RctOps =>
             /\ \A r \in RctIds : r # last_op'.id => C39_RctKept(r)
             /\ \A s \in SchdIds : C39_SchdKept(s)
        /\ UNCHANGED <<last_schd, last_rct>>

C39_Engine ==
    /\ pc = "schd" =>
         /\ \A s \in SchdIds : s # i => C39_SchdKept(s)
         /\ \A r \in RctIds : C39_RctKept(r)
    /\ pc \in {"exec", "trig", "trig_pred"} =>
         /\ \A r \in RctIds : r # i => C39_RctKept(r)
         /\ \A s \in SchdIds : C39_SchdKept(s)

\* C39: the control operations and run() touch only the entry they address:
\* setting or clearing the pending flag of reaction i, one bit of the packed
\* bytes in the compact variant also for i >= 8, leaves the pending flag of
\* every other reaction as it was, and an operation on schedule or reaction i
\* changes no field of another schedule or reaction.
C39_OnlyAddressed == [][C39_Bits /\ C39_Control /\ C39_Engine]_vars

C39_Witness ==
    /\ Wide
    /\ last_op.op = "clear" /\ last_op.id = WideMax - 1
    /\ ~BitTest(rct_areTrigged, WideMax - 1)
    /\ BitTest(rct_areTrigged, 8 - 1) /\ BitTest(rct_areTrigged, 8)
    /\ BitTest(rct_areTrigged, 0)

====
